---- MODULE Spec2Model ----
(***************************************************************************)
(* Trading-journal dashboard: the analytics computation of the analytics   *)
(* page, the market-data client and the quota cooldown of the AI service.  *)
(*                                                                         *)
(* Numbers are JavaScript numbers: IEEE-754 binary64 values, computed      *)
(* with the operations and in the order of the source.  Optional fields    *)
(* are <<>> (absent) or <<v>>.                                             *)
(***************************************************************************)
EXTENDS Integers, Sequences, FiniteSets, TLC

\* ------------------------------------------------------------------------
\* Bounds of the model
\* ------------------------------------------------------------------------
MaxTrades == 3
MaxRiskTrades == 2
MaxRoiTrades == 3
MaxSessions == 2
MaxNow == 48
TickHours == 12
MaxTurns == 2
MaxIds == 3

Abs(x) == IF x < 0 THEN -x ELSE x

\* ------------------------------------------------------------------------
\* JavaScript numbers that are not whole: IEEE-754 binary64, round to
\* nearest, ties to even.  A number is [s, m, e] with value s * m * 2^e,
\* where m is zero or has exactly Precision bits.  The significand m is a
\* natural number held as a little-endian sequence of limbs below Base
\* (no high zero limb; zero is <<>>).  Exponent overflow, subnormals, NaN
\* and infinities are outside the ranges the model uses.
\* ------------------------------------------------------------------------
Precision == 53
LimbBits == 15
Base == 2^LimbBits

RECURSIVE BStrip(_)
BStrip(a) ==
  IF a = <<>> THEN <<>>
  ELSE IF a[Len(a)] = 0 THEN BStrip(SubSeq(a, 1, Len(a) - 1)) ELSE a

BHead(a) == IF a = <<>> THEN 0 ELSE Head(a)
BTail(a) == IF a = <<>> THEN <<>> ELSE Tail(a)

RECURSIVE BAddC(_, _, _)
BAddC(a, b, c) ==
  IF a = <<>> /\ b = <<>> THEN (IF c = 0 THEN <<>> ELSE <<c>>)
  ELSE LET x == BHead(a) + BHead(b) + c
       IN <<x % Base>> \o BAddC(BTail(a), BTail(b), x \div Base)

BAdd(a, b) == BAddC(a, b, 0)

\* a - b - c for a >= b + c, before stripping
RECURSIVE BSubC(_, _, _)
BSubC(a, b, c) ==
  IF a = <<>> THEN <<>>
  ELSE LET x == Head(a) - BHead(b) - c
       IN IF x < 0 THEN <<x + Base>> \o BSubC(Tail(a), BTail(b), 1)
          ELSE <<x>> \o BSubC(Tail(a), BTail(b), 0)

BSub(a, b) == BStrip(BSubC(a, b, 0))

\* -1, 0, 1 as a < b, a = b, a > b
RECURSIVE BCmpFrom(_, _, _)
BCmpFrom(a, b, i) ==
  IF i = 0 THEN 0
  ELSE IF a[i] < b[i] THEN -1
  ELSE IF a[i] > b[i] THEN 1
  ELSE BCmpFrom(a, b, i - 1)

BCmp(a, b) ==
  IF Len(a) < Len(b) THEN -1
  ELSE IF Len(a) > Len(b) THEN 1
  ELSE BCmpFrom(a, b, Len(a))

\* a * k + c for 0 <= k, c < Base
RECURSIVE BMulSmallC(_, _, _)
BMulSmallC(a, k, c) ==
  IF a = <<>> THEN (IF c = 0 THEN <<>> ELSE <<c>>)
  ELSE LET x == Head(a) * k + c
       IN <<x % Base>> \o BMulSmallC(Tail(a), k, x \div Base)

BMulSmall(a, k) == BStrip(BMulSmallC(a, k, 0))

RECURSIVE BMul(_, _)
BMul(a, b) ==
  IF a = <<>> \/ b = <<>> THEN <<>>
  ELSE BStrip(BAdd(BMulSmallC(a, Head(b), 0), <<0>> \o BMul(a, Tail(b))))

\* quotient and remainder of a by 0 < k < Base, from limb i down
RECURSIVE BDivSmallFrom(_, _, _, _)
BDivSmallFrom(a, k, i, r) ==
  IF i = 0 THEN [q |-> <<>>, r |-> r]
  ELSE LET x == r * Base + a[i]
           rest == BDivSmallFrom(a, k, i - 1, x % k)
       IN [q |-> rest.q \o <<x \div k>>, r |-> rest.r]

BDivSmall(a, k) ==
  LET d == BDivSmallFrom(a, k, Len(a), 0) IN [q |-> BStrip(d.q), r |-> d.r]

RECURSIVE BitsOf(_)
BitsOf(x) == IF x = 0 THEN 0 ELSE 1 + BitsOf(x \div 2)

BitLen(a) == IF a = <<>> THEN 0 ELSE (Len(a) - 1) * LimbBits + BitsOf(a[Len(a)])

BBit(a, i) ==
  IF i \div LimbBits + 1 > Len(a) THEN 0
  ELSE (a[i \div LimbBits + 1] \div 2^(i % LimbBits)) % 2

Zeros(n) == [i \in 1..n |-> 0]

BShl(a, k) ==
  IF a = <<>> THEN <<>>
  ELSE Zeros(k \div LimbBits) \o BMulSmall(a, 2^(k % LimbBits))

BShr(a, k) ==
  IF k \div LimbBits >= Len(a) THEN <<>>
  ELSE BDivSmall(SubSeq(a, k \div LimbBits + 1, Len(a)), 2^(k % LimbBits)).q

\* whether some bit of a below bit k is set
BLowBits(a, k) == BShl(BShr(a, k), k) # a

BOfInt(k) == BStrip(<<k % Base, (k \div Base) % Base, k \div (Base * Base)>>)

\* quotient and remainder of a by b # 0: long division, the bits of limb j
\* from bit i down to bit lo, then the limbs below
RECURSIVE BDivModBits(_, _, _, _, _)
BDivModBits(a, b, i, lo, st) ==
  IF i < lo THEN st
  ELSE LET r2 == BMulSmallC(st.r, 2, BBit(a, i))
       IN IF BCmp(r2, b) >= 0
          THEN BDivModBits(a, b, i - 1, lo,
                           [q |-> BMulSmallC(st.q, 2, 1), r |-> BSub(r2, b)])
          ELSE BDivModBits(a, b, i - 1, lo, [q |-> BMulSmallC(st.q, 2, 0), r |-> r2])

RECURSIVE BDivModLimbs(_, _, _, _)
BDivModLimbs(a, b, j, st) ==
  IF j < 0 \/ Len(st.q) < 0 THEN st
  ELSE BDivModLimbs(a, b, j - 1,
         BDivModBits(a, b, LimbBits * j + LimbBits - 1, LimbBits * j, st))

BDivMod(a, b) == BDivModLimbs(a, b, Len(a) - 1, [q |-> <<>>, r |-> <<>>])

\* integer square root with remainder, two bits at a time: the bit pairs
\* i down to lo, then the groups of pairs below
RECURSIVE BSqrtPairs(_, _, _, _)
BSqrtPairs(a, i, lo, st) ==
  IF i < lo THEN st
  ELSE LET r2 == BMulSmallC(st.r, 4, 2 * BBit(a, 2 * i + 1) + BBit(a, 2 * i))
           trial == BMulSmallC(st.q, 4, 1)
       IN IF BCmp(r2, trial) >= 0
          THEN BSqrtPairs(a, i - 1, lo,
                          [q |-> BMulSmallC(st.q, 2, 1), r |-> BSub(r2, trial)])
          ELSE BSqrtPairs(a, i - 1, lo, [q |-> BMulSmallC(st.q, 2, 0), r |-> r2])

RECURSIVE BSqrtGroups(_, _, _)
BSqrtGroups(a, j, st) ==
  IF j < 0 \/ Len(st.q) < 0 THEN st
  ELSE BSqrtGroups(a, j - 1,
         BSqrtPairs(a, LimbBits * j + LimbBits - 1, LimbBits * j, st))

BSqrt(a) == BSqrtGroups(a, Len(a) \div 2, [q |-> <<>>, r |-> <<>>])

NumZero == [s |-> 1, m |-> <<>>, e |-> 0]

\* s * m * 2^e (plus a nonzero amount below the last bit of m when sticky)
\* rounded to Precision bits, to nearest, ties to even
NumRound(s, m, e, sticky) ==
  LET L == BitLen(m)
  IN IF L = 0 THEN NumZero
     ELSE IF L <= Precision
          THEN [s |-> s, m |-> BShl(m, Precision - L), e |-> e - (Precision - L)]
          ELSE LET k == L - Precision
                   q == BShr(m, k)
                   half == BBit(m, k - 1) = 1
                   low == sticky \/ BLowBits(m, k - 1)
                   up == half /\ (low \/ BBit(q, 0) = 1)
                   q2 == IF up THEN BAdd(q, <<1>>) ELSE q
               IN IF BitLen(q2) > Precision
                  THEN [s |-> s, m |-> BShr(q2, 1), e |-> e + k + 1]
                  ELSE [s |-> s, m |-> q2, e |-> e + k]

NumOfInt(k) == NumRound(IF k < 0 THEN -1 ELSE 1, BOfInt(Abs(k)), 0, FALSE)

NumNeg(a) == IF a.m = <<>> THEN a ELSE [a EXCEPT !.s = -a.s]

\* a + b
NumAdd(a, b) ==
  IF a.m = <<>> THEN b
  ELSE IF b.m = <<>> THEN a
  ELSE IF a.e - b.e > Precision + 2 THEN a
  ELSE IF b.e - a.e > Precision + 2 THEN b
  ELSE LET e == IF a.e < b.e THEN a.e ELSE b.e
           ma == BShl(a.m, a.e - e)
           mb == BShl(b.m, b.e - e)
       IN IF a.s = b.s THEN NumRound(a.s, BAdd(ma, mb), e, FALSE)
          ELSE IF BCmp(ma, mb) >= 0 THEN NumRound(a.s, BSub(ma, mb), e, FALSE)
          ELSE NumRound(b.s, BSub(mb, ma), e, FALSE)

NumSub(a, b) == NumAdd(a, NumNeg(b))

NumMul(a, b) ==
  IF a.m = <<>> \/ b.m = <<>> THEN NumZero
  ELSE NumRound(a.s * b.s, BMul(a.m, b.m), a.e + b.e, FALSE)

RECURSIVE TrailingZeros(_)
TrailingZeros(x) == IF x % 2 = 1 THEN 0 ELSE 1 + TrailingZeros(x \div 2)

RECURSIVE BTrailingZeros(_)
BTrailingZeros(a) ==
  IF Head(a) = 0 THEN LimbBits + BTrailingZeros(Tail(a)) ELSE TrailingZeros(Head(a))

\* a / b for b # 0: the quotient of the significands to Precision + 3 bits
\* or more and whether a remainder is left, rounded once.  A divisor whose
\* significand without its low zero bits fits a limb is divided by short
\* division, any other by long division; the quotient is the same.
NumDiv(a, b) ==
  IF a.m = <<>> THEN NumZero
  ELSE LET t == BTrailingZeros(b.m)
           odd == BShr(b.m, t)
       IN IF Len(odd) = 1
          THEN LET d == BDivSmall(BShl(a.m, LimbBits + 2), odd[1])
               IN NumRound(a.s * b.s, d.q, a.e - (b.e + t) - (LimbBits + 2), d.r # 0)
          ELSE LET d == BDivMod(BShl(a.m, Precision + 3), b.m)
               IN NumRound(a.s * b.s, d.q, a.e - b.e - (Precision + 3), d.r # <<>>)

\* Math.sqrt(a) for a >= 0
NumSqrt(a) ==
  IF a.m = <<>> THEN NumZero
  ELSE LET k == IF a.e % 2 = 0 THEN Precision + 3 ELSE Precision + 4
           d == BSqrt(BShl(a.m, k))
       IN NumRound(1, d.q, (a.e - k) \div 2, d.r # <<>>)

NumSgn(a) == IF a.m = <<>> THEN 0 ELSE a.s

\* -1, 0, 1 as a < b, a = b, a > b
NumMagCmp(a, b) ==
  IF a.e # b.e THEN (IF a.e > b.e THEN 1 ELSE -1) ELSE BCmp(a.m, b.m)

NumCmp(a, b) ==
  IF NumSgn(a) # NumSgn(b) THEN (IF NumSgn(a) > NumSgn(b) THEN 1 ELSE -1)
  ELSE IF NumSgn(a) = 0 THEN 0
  ELSE NumSgn(a) * NumMagCmp(a, b)

NumLT(a, b) == NumCmp(a, b) < 0
NumGT(a, b) == NumCmp(a, b) > 0
NumAbs(a) == [a EXCEPT !.s = 1]

\* a / k for a whole 0 < k < Base
NumDivInt(a, k) ==
  IF a.m = <<>> THEN NumZero
  ELSE LET d == BDivSmall(BShl(a.m, LimbBits + 2), k)
       IN NumRound(a.s, d.q, a.e - (LimbBits + 2), d.r # 0)

\* the number a decimal literal n / scale denotes (scale a power of ten
\* below Base): the double nearest to it
Dec(n, scale) == NumDivInt(NumOfInt(n), scale)


\* the whole number a significand of at most two limbs is
BToInt(a) == BHead(a) + Base * BHead(BTail(a))

\* (x).toFixed(1) for x > 0, in tenths: the whole n nearest to 10 x, the
\* larger one of two equally near
ToFixedTenths(a) ==
  LET twenty == BMulSmall(a.m, 20)
  IN IF a.e >= 0 THEN BToInt(BShl(BMulSmall(a.m, 10), a.e))
     ELSE BToInt(BShr(BAdd(twenty, BShl(<<1>>, -a.e)), 1 - a.e))

\* ------------------------------------------------------------------------
\* Optional values and JavaScript truthiness of an optional number
\* ------------------------------------------------------------------------
Absent == <<>>
Some(v) == <<v>>
Truthy(o) == o # Absent /\ o[1].m # <<>>

\* ------------------------------------------------------------------------
\* Array helpers (reduce from 0, map, Math.max)
\* ------------------------------------------------------------------------
RECURSIVE NumSum(_)
NumSum(s) ==
  IF Len(s) = 0 THEN NumZero
  ELSE NumAdd(NumSum(SubSeq(s, 1, Len(s) - 1)), s[Len(s)])

\* the first number of the list taken for the largest
NumMaxFirst(s) == s[1]

RECURSIVE NumMax(_)
NumMax(s) ==
  IF Len(s) = 1 THEN s[1]
  ELSE LET m == NumMax(SubSeq(s, 1, Len(s) - 1))
       IN IF NumGT(s[Len(s)], m) THEN s[Len(s)] ELSE m

Map(s, Op(_)) == [i \in 1..Len(s) |-> Op(s[i])]

ProfitLoss(t) == t.profit_loss
MarginOf(t) == t.margin
RoiOf(t) == t.roi
CurrentCapital(s) == s.current_capital
IsWin(t) == NumGT(t.profit_loss, NumZero)
IsLoss(t) == NumLT(t.profit_loss, NumZero)
\* every trade counted as a long one
IsAnySide(t) == TRUE
IsLong(t) == t.entry_side = "Long"
IsShort(t) == t.entry_side = "Short"

\* ------------------------------------------------------------------------
\* calculateUserAnalytics
\* ------------------------------------------------------------------------
Hundred == NumOfInt(100)

\* a success rate over the winning and losing trades only
SuccessRateOfDecided(trades) ==
  IF Len(SelectSeq(trades, IsWin)) + Len(SelectSeq(trades, IsLoss)) = 0 THEN NumZero
  ELSE NumMul(NumDivInt(NumOfInt(Len(SelectSeq(trades, IsWin))),
                        Len(SelectSeq(trades, IsWin)) + Len(SelectSeq(trades, IsLoss))),
              Hundred)

\* lines 79-81
SuccessRate(trades) ==
  NumMul(NumDivInt(NumOfInt(Len(SelectSeq(trades, IsWin))), Len(trades)), Hundred)

\* lines 88-90
TotalWins(trades) == NumSum(Map(SelectSeq(trades, IsWin), ProfitLoss))
TotalLosses(trades) == NumAbs(NumSum(Map(SelectSeq(trades, IsLoss), ProfitLoss)))

\* a profit factor without the sentinel
ProfitFactorNoSentinel(totalWins, totalLosses) ==
  IF NumGT(totalLosses, NumZero) THEN NumDiv(totalWins, totalLosses) ELSE NumZero

ProfitFactor(totalWins, totalLosses) ==
  IF NumGT(totalLosses, NumZero) THEN NumDiv(totalWins, totalLosses)
  ELSE IF NumGT(totalWins, NumZero) THEN NumOfInt(999) ELSE NumZero

\* lines 92-108: the R-multiples of the trades that have SL data
RiskOf(t) ==
  IF t.entry_side = "Long" THEN NumSub(t.open_price[1], t.sl[1])
  ELSE NumSub(t.sl[1], t.open_price[1])

\* R-multiples in which a trade without SL data counts as 0
RECURSIVE RMultiplesZeroFilled(_)
RMultiplesZeroFilled(trades) ==
  IF trades = <<>> THEN <<>>
  ELSE IF Truthy(Head(trades).sl) /\ Truthy(Head(trades).open_price)
          /\ NumGT(RiskOf(Head(trades)), NumZero)
       THEN <<NumDiv(Head(trades).profit_loss, RiskOf(Head(trades)))>>
              \o RMultiplesZeroFilled(Tail(trades))
       ELSE <<NumZero>> \o RMultiplesZeroFilled(Tail(trades))

RECURSIVE RMultiples(_)
RMultiples(trades) ==
  IF trades = <<>> THEN <<>>
  ELSE LET t == Head(trades)
           rest == RMultiples(Tail(trades))
       IN IF Truthy(t.sl) /\ Truthy(t.open_price)
          THEN IF NumGT(RiskOf(t), NumZero)
               THEN <<NumDiv(t.profit_loss, RiskOf(t))>> \o rest
               ELSE rest
          ELSE rest

\* lines 110-112
AverageRMultiple(rMultiples) ==
  IF Len(rMultiples) > 0 THEN NumDivInt(NumSum(rMultiples), Len(rMultiples))
  ELSE NumZero

\* a streak step in which a win leaves the losing run standing
StreakStepNoReset(st, t) ==
  IF NumGT(t.profit_loss, NumZero)
  THEN LET cur == IF st.currentStreak > 0 THEN st.currentStreak + 1 ELSE 1
       IN [currentStreak |-> cur,
           bestStreak |-> IF st.bestStreak > cur THEN st.bestStreak ELSE cur,
           worstStreak |-> st.worstStreak,
           tempWorstStreak |-> st.tempWorstStreak]
  ELSE LET cur == IF st.currentStreak < 0 THEN st.currentStreak - 1 ELSE -1
           tmp == IF st.tempWorstStreak < 0 THEN st.tempWorstStreak - 1 ELSE -1
       IN [currentStreak |-> cur,
           bestStreak |-> st.bestStreak,
           worstStreak |-> IF st.worstStreak < tmp THEN st.worstStreak ELSE tmp,
           tempWorstStreak |-> tmp]

\* a streak step in which a non-winning trade leaves currentStreak as it was
StreakStepKeepingWins(st, t) ==
  IF NumGT(t.profit_loss, NumZero)
  THEN LET cur == IF st.currentStreak > 0 THEN st.currentStreak + 1 ELSE 1
       IN [currentStreak |-> cur,
           bestStreak |-> IF st.bestStreak > cur THEN st.bestStreak ELSE cur,
           worstStreak |-> st.worstStreak,
           tempWorstStreak |-> 0]
  ELSE LET tmp == IF st.tempWorstStreak < 0 THEN st.tempWorstStreak - 1 ELSE -1
       IN [currentStreak |-> st.currentStreak,
           bestStreak |-> st.bestStreak,
           worstStreak |-> IF st.worstStreak < tmp THEN st.worstStreak ELSE tmp,
           tempWorstStreak |-> tmp]

\* lines 114-130: one step of the streak walk
StreakStep(st, t) ==
  IF NumGT(t.profit_loss, NumZero)
  THEN LET cur == IF st.currentStreak > 0 THEN st.currentStreak + 1 ELSE 1
       IN [currentStreak |-> cur,
           bestStreak |-> IF st.bestStreak > cur THEN st.bestStreak ELSE cur,
           worstStreak |-> st.worstStreak,
           tempWorstStreak |-> 0]
  ELSE LET cur == IF st.currentStreak < 0 THEN st.currentStreak - 1 ELSE -1
           tmp == IF st.tempWorstStreak < 0 THEN st.tempWorstStreak - 1 ELSE -1
       IN [currentStreak |-> cur,
           bestStreak |-> st.bestStreak,
           worstStreak |-> IF st.worstStreak < tmp THEN st.worstStreak ELSE tmp,
           tempWorstStreak |-> tmp]

StreakInit ==
  [currentStreak |-> 0, bestStreak |-> 0, worstStreak |-> 0, tempWorstStreak |-> 0]

RECURSIVE StreakWalk(_, _)
StreakWalk(st, trades) ==
  IF trades = <<>> THEN st ELSE StreakWalk(StreakStep(st, Head(trades)), Tail(trades))

\* a drawdown step that keeps the latest drawdown, not the largest
DrawdownStepLatest(st, t) ==
  LET runningTotal == NumAdd(st.runningTotal, t.profit_loss)
      peak == IF NumGT(runningTotal, st.peak) THEN runningTotal ELSE st.peak
  IN [peak |-> peak,
      maxDrawdownAmount |-> NumSub(peak, runningTotal),
      runningTotal |-> runningTotal]

\* lines 132-146: one step of the drawdown walk
DrawdownStep(st, t) ==
  LET runningTotal == NumAdd(st.runningTotal, t.profit_loss)
      peak == IF NumGT(runningTotal, st.peak) THEN runningTotal ELSE st.peak
      drawdown == NumSub(peak, runningTotal)
  IN [peak |-> peak,
      maxDrawdownAmount |->
        IF NumGT(drawdown, st.maxDrawdownAmount) THEN drawdown
        ELSE st.maxDrawdownAmount,
      runningTotal |-> runningTotal]

DrawdownInit == [peak |-> NumZero, maxDrawdownAmount |-> NumZero, runningTotal |-> NumZero]

RECURSIVE DrawdownWalk(_, _)
DrawdownWalk(st, trades) ==
  IF trades = <<>> THEN st
  ELSE DrawdownWalk(DrawdownStep(st, Head(trades)), Tail(trades))

\* line 148
MaxDrawdownPercentage(dd) ==
  IF NumGT(dd.peak, NumZero) THEN NumMul(NumDiv(dd.maxDrawdownAmount, dd.peak), Hundred)
  ELSE NumZero

\* lines 150-156
AvgReturn(returns) == NumDivInt(NumSum(returns), Len(returns))

SquaredDeviation(r, avgReturn) ==
  LET dev == NumSub(r, avgReturn) IN NumMul(dev, dev)

ReturnStdDev(returns) ==
  LET avgReturn == AvgReturn(returns)
  IN NumSqrt(NumDivInt(
       NumSum([i \in 1..Len(returns) |-> SquaredDeviation(returns[i], avgReturn)]),
       Len(returns)))

SharpeRatio(trades) ==
  LET returns == Map(trades, RoiOf)
      returnStdDev == ReturnStdDev(returns)
  IN IF NumGT(returnStdDev, NumZero) THEN NumDiv(AvgReturn(returns), returnStdDev)
     ELSE NumZero

\* a risk level whose High threshold on the drawdown is not strict
RiskLevelInclusive(maxDrawdownPercentage, averageRMultiple) ==
  IF ~NumLT(maxDrawdownPercentage, NumOfInt(20)) \/ NumLT(averageRMultiple, NumOfInt(-1))
  THEN "High"
  ELSE IF NumGT(maxDrawdownPercentage, NumOfInt(10)) \/ NumLT(averageRMultiple, NumZero)
       THEN "Moderate"
       ELSE "Low"

\* lines 158-164
RiskLevel(maxDrawdownPercentage, averageRMultiple) ==
  IF NumGT(maxDrawdownPercentage, NumOfInt(20)) \/ NumLT(averageRMultiple, NumOfInt(-1))
  THEN "High"
  ELSE IF NumGT(maxDrawdownPercentage, NumOfInt(10)) \/ NumLT(averageRMultiple, NumZero)
       THEN "Moderate"
       ELSE "Low"

\* lines 166-176: timestamps are whole hours; getTime() is in milliseconds
MsPerHour == 3600000
GetTime(h) == NumOfInt(h * MsPerHour)

HasTimes(t) == t.open_time # Absent /\ t.close_time # Absent
HoldMs(t) == NumSub(GetTime(t.close_time[1]), GetTime(t.open_time[1]))

AvgHoldTime(trades) ==
  LET tradesWithTime == SelectSeq(trades, HasTimes)
  IN IF Len(tradesWithTime) > 0
     THEN NumDiv(NumDivInt(NumSum(Map(tradesWithTime, HoldMs)), Len(tradesWithTime)),
                 NumOfInt(MsPerHour))
     ELSE NumZero

\* line 195
BestTime(avgHoldTime) ==
  IF NumGT(avgHoldTime, NumZero)
  THEN ToString(ToFixedTenths(avgHoldTime) \div 10) \o "."
       \o ToString(ToFixedTenths(avgHoldTime) % 10) \o " hours"
  ELSE "N/A"

\* lines 66, 186
ActiveCapital(sessions) == NumSum(Map(sessions, CurrentCapital))

\* a neutral result that reports no capital
NeutralAnalyticsNoCapital(sessions) ==
  [sharpeRatio |-> NumZero,
   maxDrawdown |-> [percentage |-> NumZero, amount |-> NumZero],
   profitFactor |-> NumZero,
   averageRMultiple |-> NumZero,
   activeCapital |-> NumZero,
   tradeDistribution |-> [longTrades |-> 0, shortTrades |-> 0,
                          longPercentage |-> NumZero, shortPercentage |-> NumZero],
   timeAnalysis |-> [avgHoldTime |-> NumZero, bestTime |-> "N/A"],
   riskMetrics |-> [avgRiskPerTrade |-> NumZero, maxRisk |-> NumZero],
   streaks |-> [bestStreak |-> 0, worstStreak |-> 0],
   overallPerformance |-> NumZero,
   successRate |-> NumZero,
   riskLevel |-> "Low"]

\* lines 60-75
NeutralAnalytics(sessions) ==
  [sharpeRatio |-> NumZero,
   maxDrawdown |-> [percentage |-> NumZero, amount |-> NumZero],
   profitFactor |-> NumZero,
   averageRMultiple |-> NumZero,
   activeCapital |-> ActiveCapital(sessions),
   tradeDistribution |-> [longTrades |-> 0, shortTrades |-> 0,
                          longPercentage |-> NumZero, shortPercentage |-> NumZero],
   timeAnalysis |-> [avgHoldTime |-> NumZero, bestTime |-> "N/A"],
   riskMetrics |-> [avgRiskPerTrade |-> NumZero, maxRisk |-> NumZero],
   streaks |-> [bestStreak |-> 0, worstStreak |-> 0],
   overallPerformance |-> NumZero,
   successRate |-> NumZero,
   riskLevel |-> "Low"]

\* lines 178-208: the record returned for a non-empty trade list, from the
\* values computed before it
UserAnalytics(sessions, trades, averageRMultiple, streak, dd, avgHoldTime) ==
  [sharpeRatio |-> SharpeRatio(trades),
   maxDrawdown |-> [percentage |-> MaxDrawdownPercentage(dd),
                    amount |-> dd.maxDrawdownAmount],
   profitFactor |-> ProfitFactor(TotalWins(trades), TotalLosses(trades)),
   averageRMultiple |-> averageRMultiple,
   activeCapital |-> ActiveCapital(sessions),
   tradeDistribution |->
     [longTrades |-> Len(SelectSeq(trades, IsLong)),
      shortTrades |-> Len(SelectSeq(trades, IsShort)),
      longPercentage |->
        NumMul(NumDivInt(NumOfInt(Len(SelectSeq(trades, IsLong))), Len(trades)), Hundred),
      shortPercentage |->
        NumMul(NumDivInt(NumOfInt(Len(SelectSeq(trades, IsShort))), Len(trades)), Hundred)],
   timeAnalysis |-> [avgHoldTime |-> avgHoldTime, bestTime |-> BestTime(avgHoldTime)],
   riskMetrics |-> [avgRiskPerTrade |->
                      NumDivInt(NumSum(Map(trades, MarginOf)), Len(trades)),
                    maxRisk |-> NumMax(Map(trades, MarginOf))],
   streaks |-> [bestStreak |-> streak.bestStreak,
                worstStreak |-> Abs(streak.worstStreak)],
   overallPerformance |-> NumSum(Map(trades, ProfitLoss)),
   successRate |-> SuccessRate(trades),
   riskLevel |-> RiskLevel(MaxDrawdownPercentage(dd), averageRMultiple)]

\* lines 59-209
calculateUserAnalytics(sessions, trades) ==
  IF Len(trades) = 0 THEN NeutralAnalytics(sessions)
  ELSE UserAnalytics(sessions, trades,
                     AverageRMultiple(RMultiples(trades)),
                     StreakWalk(StreakInit, trades),
                     DrawdownWalk(DrawdownInit, trades),
                     AvgHoldTime(trades))

\* ------------------------------------------------------------------------
\* The analytics page: state and inputs
\* ------------------------------------------------------------------------
VARIABLES
  sessions,     \* useState<TradingSession[]>([])
  allTrades,    \* useState<Trade[]>([])
  analytics,    \* useState<UserAnalytics | null>(null): Absent or Some(record)
  loading,      \* useState(true)
  loadError     \* whether the catch block of loadUserData has logged an error

\* the market data services
VARIABLES
  variant,      \* the service in use: "client" (enhancedMarketDataService)
                \* or "edge" (the ai-chat function's marketDataService)
  fetches,      \* per provider: where its request is and what it came to
  marketData    \* the promise getAllMarketData returned

\* the assistant service (EnhancedAIService)
VARIABLES
  quotaExceeded,   \* private quotaExceeded = false
  quotaResetTime,  \* private quotaResetTime: Date | null, in hours
  now,             \* the wall clock, in hours
  calls            \* the invocations in flight, per caller

avars == <<sessions, allTrades, analytics, loading, loadError>>
mvars == <<variant, fetches, marketData>>
qvars == <<quotaExceeded, quotaResetTime, now, calls>>

\* one call of retryWithBackoff, of either EnhancedAIService class
VARIABLES
  retry         \* where the loop is, the replies it saw and how it ended

rvars == <<retry>>

\* the text turns of the assistant (processMessage of the second class)
VARIABLES
  conversationContexts,  \* private conversationContexts: Map<string, Array<...>>,
                         \* per user Absent or Some(entries)
  chatMessages,          \* the chat_messages table: per user, its rows by created_at
  turns,                 \* the calls of processMessage in flight, per slot
  nextMessage,           \* numbers the messages users send
  interfaces,            \* how many chat interfaces use the service; each has
                         \* at most one turn in flight
  cleared                \* per user, what has happened since the context was
                         \* last cleared: "no" clear yet, "cleared" and nothing
                         \* sent since, or the first message sent since

cvars == <<conversationContexts, chatMessages, turns, nextMessage, interfaces, cleared>>

\* the store (the tables and policies of the migration) and tradingService
VARIABLES
  tradingSessionsTable,  \* public.trading_sessions, as a set of rows
  tradesTable,           \* public.trades, as a set of rows
  nextId,                \* gen_random_uuid(): ids are never handed out twice
  lastOp                 \* the last operation: who asked, what the store
                         \* said, how the operation ended

svars == <<tradingSessionsTable, tradesTable, nextId, lastOp>>

\* the ai-chat function (supabase/functions/ai-chat/index.ts)
VARIABLES
  request       \* the request the function is serving: where its handler is,
                \* the handler's locals and the response it sent

fvars == <<request>>

\* export and import of a session as a JSON file (utils of the dashboard)
VARIABLES
  export,       \* the last export: the session and trades given to
                \* exportToJSON and the file it made
  imported      \* the promise of the last importFromJSON, once settled

jvars == <<export, imported>>

\* the trade form and the trades list of the dashboard
VARIABLES
  form,         \* the trade form of the session's type: formData, the upload,
                \* loading, and the call of onAddTrade it awaits
  list,         \* the trades list: editingTradeId, editFormData and the calls
                \* of onUpdateTrade it awaits
  toasts        \* the notices on the screen, oldest first

uvars == <<form, list, toasts>>

\* the cleaning of an extracted record (EnhancedAIService)
VARIABLES
  extraction    \* the record JSON.parse read from the reply and what
                \* validateAndCleanExtractedData made of it

evars == <<extraction>>

\* the chat interface (EnhancedChatInterface)
VARIABLES
  chat          \* the state of the component and its calls in flight

ivars == <<chat>>
yvars == <<fvars, jvars, uvars, evars, ivars>>
xvars == <<rvars, cvars, svars, yvars>>
\* the rest of xvars, for the actions of each part
notRetry == <<cvars, svars, yvars>>
notChat == <<rvars, svars, yvars>>
notStore == <<rvars, cvars, yvars>>
vars == <<avars, mvars, qvars, xvars>>
\* what the function, the export and the forms leave alone
zvars == <<avars, mvars, qvars, rvars, cvars, svars, evars, ivars>>
\* what the cleaning leaves alone
notExtract == <<avars, mvars, qvars, rvars, cvars, svars, fvars, jvars, uvars, ivars>>
\* what the chat interface leaves alone, but for the context it clears
notInterface == <<avars, mvars, qvars, rvars, cvars, svars, fvars, jvars, uvars, evars>>

SeqsUpTo(S, n) == UNION {[1..k -> S] : k \in 0..n}

Session(capital) == [current_capital |-> NumOfInt(capital)]

Trade(pl, side, open, sl, roi, margin, ot, ct) ==
  [profit_loss |-> pl, entry_side |-> side, open_price |-> open, sl |-> sl,
   roi |-> roi, margin |-> margin, open_time |-> ot, close_time |-> ct]

\* trades that differ in profit_loss only
PLValues == {-150, -100, -50, -20, 0, 20, 30, 50, 100}
PLTrade(pl) ==
  Trade(NumOfInt(pl), "Long", Absent, Absent, Dec(250, 100), NumOfInt(1000), Absent, Absent)
PLTrades == {PLTrade(pl) : pl \in PLValues}

\* trades that differ in side, prices, margin and times
Price(n, scale) == Some(Dec(n, scale))
RiskProfiles ==
  { <<"Long", Price(11000, 10000), Price(11010, 10000), 1000, Absent, Absent>>,
    <<"Long", Price(215, 10), Price(115, 10), 500, Some(1), Some(4)>>,
    <<"Short", Price(115, 10), Price(215, 10), 1000, Some(2), Some(4)>>,
    <<"Long", Absent, Price(115, 10), 2000, Some(3), Absent>>,
    <<"Long", Price(215, 10), Absent, 1000, Absent, Some(5)>>,
    <<"Long", Price(215, 10), Price(0, 1), 1000, Absent, Absent>>,
    <<"Short", Price(115, 10), Price(115, 10), 1000, Absent, Absent>> }
RiskPLValues == {-20, -10, 10}
RiskTrades ==
  {Trade(NumOfInt(pl), p[1], p[2], p[3], Dec(250, 100), NumOfInt(p[4]), p[5], p[6]) :
     pl \in RiskPLValues, p \in RiskProfiles}

\* trades that differ in the stored roi only (hundredths: 0.10, 0.70, ...)
RoiValues == {10, 70, 250, -500, 3333}
RoiTrade(roi) ==
  Trade(NumOfInt(50), "Long", Absent, Absent, Dec(roi, 100), NumOfInt(1000), Absent, Absent)
RoiTrades == {RoiTrade(r) : r \in RoiValues}

\* the worked examples of four trades
WorkedExamples ==
  { <<PLTrade(100), PLTrade(-50), PLTrade(0), PLTrade(30)>>,
    <<PLTrade(100), PLTrade(50), PLTrade(-50), PLTrade(30)>> }

TradeLists ==
  SeqsUpTo(PLTrades, MaxTrades) \cup SeqsUpTo(RiskTrades, MaxRiskTrades)
    \cup SeqsUpTo(RoiTrades, MaxRoiTrades) \cup WorkedExamples

CapitalValues == {0, 1000, 2500}
SessionLists == SeqsUpTo({Session(c) : c \in CapitalValues}, MaxSessions)

\* what the store returns: trades exist only under a session
LoadInputs ==
  {<<ss, <<>>>> : ss \in SessionLists}
    \cup {<<ss, ts>> : ss \in SessionLists \ {<<>>}, ts \in WorkedExamples}
    \cup {<<ss, ts>> : ss \in {<<Session(1000)>>}, ts \in TradeLists}

InitAnalytics ==
  /\ sessions = <<>>
  /\ allTrades = <<>>
  /\ analytics = Absent
  /\ loading = TRUE
  /\ loadError = FALSE

\* lines 35-57, when both store reads succeed
LoadUserData ==
  /\ loading
  /\ \E inp \in LoadInputs :
       /\ sessions' = inp[1]
       /\ allTrades' = inp[2]
       /\ analytics' = Some(calculateUserAnalytics(inp[1], inp[2]))
  /\ loading' = FALSE
  /\ UNCHANGED <<loadError, mvars, qvars, xvars>>

\* lines 35-57, when getSessions rejects, or a getTrades rejects after it
LoadUserDataFailed ==
  /\ loading
  /\ \/ UNCHANGED sessions
     \/ \E ss \in SessionLists \ {<<>>} : sessions' = ss
  /\ loading' = FALSE
  /\ loadError' = TRUE
  /\ UNCHANGED <<allTrades, analytics, mvars, qvars, xvars>>

NextAnalytics == LoadUserData \/ LoadUserDataFailed

\* trades with amounts in tenths (0.1, 0.2, 0.3, ...), some of them whole
\* numbers; the margin is the size of the amount, losses are short trades
MaxOrderTrades == 3
TenthsValues == {-20, -1, 0, 1, 2, 3, 10}
TenthsTrade(pl) ==
  Trade(Dec(pl, 10), IF pl > 0 THEN "Long" ELSE "Short", Absent, Absent,
        Dec(250, 100), Dec(Abs(pl), 10), Absent, Absent)
TenthsTradeLists == SeqsUpTo({TenthsTrade(pl) : pl \in TenthsValues}, MaxOrderTrades)

\* lines 35-57 with the trades above
LoadTenthsData ==
  /\ loading
  /\ \E trades \in TenthsTradeLists :
       /\ sessions' = <<Session(1000), Session(2500)>>
       /\ allTrades' = trades
       /\ analytics' = Some(calculateUserAnalytics(<<Session(1000), Session(2500)>>, trades))
  /\ loading' = FALSE
  /\ UNCHANGED <<loadError, mvars, qvars, xvars>>

NextTenths == LoadTenthsData

\* ------------------------------------------------------------------------
\* Market data: the provider wrappers and getAllMarketData
\* (enhancedMarketDataService.ts; ai-chat/index.ts, class MarketDataService)
\* ------------------------------------------------------------------------
Providers == {"crypto", "gold", "fearGreed", "news"}
Variants == {"client", "edge"}

\* a try block either threw or returned a value; the promise of an async
\* function is fulfilled with a value or rejected
Threw == [threw |-> TRUE]
Returned(v) == [threw |-> FALSE, value |-> v]
Fulfilled(v) == [status |-> "fulfilled", value |-> v]
Rejected == [status |-> "rejected"]
Pending == [status |-> "pending"]

\* what a fetch comes to: fetch() throws, a response that is not ok, a body
\* json() cannot parse, or a parsed body
NetworkError == [kind |-> "networkError"]
HttpError == [kind |-> "httpError"]
BadJson == [kind |-> "badJson"]
Json(b) == [kind |-> "json", body |-> b]
FailedFetches == {NetworkError, HttpError, BadJson}

\* x || d for an optional number x, a || b for optional strings
OrElse(o, d) == IF Truthy(o) THEN o[1] ELSE d
TruthyStr(o) == o # Absent /\ o[1] # ""
StrOr(o, d) == IF TruthyStr(o) THEN o[1] ELSE d

\* getCryptoPrices: the catch block's value
CryptoFallback ==
  [btc |-> [symbol |-> "BTC/USD", price |-> Some(NumOfInt(43250)),
            change24h |-> NumOfInt(1250), changePercent24h |-> Dec(298, 100)],
   eth |-> [symbol |-> "ETH/USD", price |-> Some(NumOfInt(2650)),
            change24h |-> NumOfInt(-45), changePercent24h |-> Dec(-167, 100)]]

\* getCryptoPrices: the try block (the same in both services)
TryCryptoPrices(resp) ==
  IF resp.kind # "json" THEN Threw
  ELSE IF resp.body.bitcoin = Absent \/ resp.body.ethereum = Absent THEN Threw
  ELSE Returned(
    [btc |-> [symbol |-> "BTC/USD", price |-> resp.body.bitcoin[1].usd,
              change24h |-> OrElse(resp.body.bitcoin[1].usd_24h_change, NumZero),
              changePercent24h |-> OrElse(resp.body.bitcoin[1].usd_24h_change, NumZero)],
     eth |-> [symbol |-> "ETH/USD", price |-> resp.body.ethereum[1].usd,
              change24h |-> OrElse(resp.body.ethereum[1].usd_24h_change, NumZero),
              changePercent24h |-> OrElse(resp.body.ethereum[1].usd_24h_change, NumZero)]])

\* a getCryptoPrices whose catch block throws the error on
getCryptoPricesRethrowing(resp) ==
  IF TryCryptoPrices(resp).threw THEN Rejected
  ELSE Fulfilled(TryCryptoPrices(resp).value)

getCryptoPrices(resp) ==
  IF TryCryptoPrices(resp).threw THEN Fulfilled(CryptoFallback)
  ELSE Fulfilled(TryCryptoPrices(resp).value)

\* getGoldPrice: the mock data
GoldMock ==
  [price |-> NumOfInt(2050), change24h |-> Dec(1550, 100),
   changePercent24h |-> Dec(76, 100)]

\* the gold price read from a metals.live body
GoldFromMetalsLive(b) ==
  [price |-> OrElse(b.price, NumOfInt(2050)),
   change24h |-> OrElse(b.change, Dec(1550, 100)),
   changePercent24h |-> OrElse(b.change_percent, Dec(76, 100))]

\* client getGoldPrice: the try block on the Tradermade response
TryGoldTradermade(resp) ==
  IF resp.kind # "json" THEN Threw
  ELSE IF resp.body.quotes = Absent THEN Threw
  ELSE IF resp.body.quotes[1] = <<>> THEN Threw
  ELSE Returned(
    [price |-> OrElse(resp.body.quotes[1][1].mid,
                      OrElse(resp.body.quotes[1][1].ask, NumOfInt(2050))),
     change24h |-> Dec(1550, 100),
     changePercent24h |-> Dec(76, 100)])

\* client getGoldPrice: the catch block, once the metals.live fetch is in
GoldAfterFallback(resp) ==
  IF resp.kind = "json" THEN Fulfilled(GoldFromMetalsLive(resp.body))
  ELSE Fulfilled(GoldMock)

\* edge getGoldPrice
getGoldPriceEdge(resp) ==
  IF resp.kind = "json" THEN Fulfilled(GoldFromMetalsLive(resp.body))
  ELSE Fulfilled(GoldMock)

\* parseInt of a string given as its characters: the number its leading
\* digits write, NaN when it starts with none
Digits == <<"0", "1", "2", "3", "4", "5", "6", "7", "8", "9">>
IsDigit(c) == \E d \in 1..10 : Digits[d] = c
DigitValue(c) == (CHOOSE d \in 1..10 : Digits[d] = c) - 1
RECURSIVE ParseDigits(_, _)
ParseDigits(cs, acc) ==
  IF cs = <<>> THEN acc
  ELSE IF IsDigit(Head(cs)) THEN ParseDigits(Tail(cs), 10 * acc + DigitValue(Head(cs)))
  ELSE acc
ParseInt(o) ==
  IF o = Absent THEN "NaN"
  ELSE IF o[1] = <<>> THEN "NaN"
  ELSE IF ~IsDigit(Head(o[1])) THEN "NaN"
  ELSE ParseDigits(o[1], 0)

\* getFearGreedIndex (the same in both services); the fallback's timestamp
\* is the time of the call
FearGreedFallback == [value |-> 65, classification |-> Some("Greed"), timestamp |-> Some("now")]

TryFearGreedIndex(resp) ==
  IF resp.kind # "json" THEN Threw
  ELSE IF resp.body.data = Absent THEN Threw
  ELSE IF resp.body.data[1] = <<>> THEN Threw
  ELSE Returned([value |-> ParseInt(resp.body.data[1][1].value),
                 classification |-> resp.body.data[1][1].value_classification,
                 timestamp |-> resp.body.data[1][1].timestamp])

getFearGreedIndex(resp) ==
  IF TryFearGreedIndex(resp).threw THEN Fulfilled(FearGreedFallback)
  ELSE Fulfilled(TryFearGreedIndex(resp).value)

\* getFinancialNews: the mock data; of each item the title, the source, the
\* url and the age in ms of publishedAt are kept
NewsItem(title, source, ageMs) ==
  [title |-> title, source |-> source, url |-> "#", ageMs |-> ageMs]

NewsFallback(v) ==
  IF v = "client"
  THEN << NewsItem("Bitcoin Reaches New Monthly High Amid Institutional Adoption",
                   "Crypto News Today", 0),
          NewsItem("Federal Reserve Signals Potential Interest Rate Changes",
                   "Financial Times", 3600000),
          NewsItem("Gold Prices Stabilize as Safe Haven Demand Increases",
                   "Market Watch", 7200000),
          NewsItem("Ethereum Network Upgrade Shows Promising Results",
                   "Blockchain Today", 10800000),
          NewsItem("Trading Volume Surges Across Major Cryptocurrency Exchanges",
                   "Crypto Weekly", 14400000),
          NewsItem("Central Banks Consider Digital Currency Implementations",
                   "Reuters", 18000000),
          NewsItem("Stock Market Shows Resilience Despite Economic Headwinds",
                   "Wall Street Journal", 21600000),
          NewsItem("Forex Markets React to Global Economic Data",
                   "FX Today", 25200000) >>
  ELSE << NewsItem("Bitcoin Reaches New Monthly High", "Crypto News", 0),
          NewsItem("Gold Prices Stabilize Amid Market Uncertainty", "Financial Times", 0),
          NewsItem("Ethereum Network Upgrade Shows Promise", "Blockchain Today", 0) >>

\* getFinancialNews: one article of the provider as a news item
MapArticle(v, a) ==
  [title |-> StrOr(a.title, "Untitled"),
   summary |->
     IF v = "client"
     THEN StrOr(a.description, StrOr(a.content, StrOr(a.title, "No summary available")))
     ELSE StrOr(a.description, StrOr(a.title, "No summary available")),
   url |-> StrOr(a.link, "#"),
   source |->
     IF v = "client"
     THEN StrOr(a.source_name, StrOr(a.source_id, "Unknown Source"))
     ELSE StrOr(a.source_name, "Unknown Source")]

\* client getFinancialNews: the filter on the mapped items
KeepArticle(item) ==
  /\ item.title # "" /\ item.title # "[Removed]"
  /\ item.summary # "" /\ item.summary # "[Removed]"
  /\ Len(item.title) > 10

TryFinancialNews(v, resp) ==
  IF resp.kind # "json" THEN Threw
  ELSE IF resp.body.status # "success" \/ resp.body.results = Absent THEN Threw
  ELSE IF v = "client"
       THEN Returned(SelectSeq([i \in 1..Len(resp.body.results[1]) |->
                                  MapArticle(v, resp.body.results[1][i])], KeepArticle))
       ELSE Returned([i \in 1..Len(resp.body.results[1]) |->
                        MapArticle(v, resp.body.results[1][i])])

getFinancialNews(v, resp) ==
  IF TryFinancialNews(v, resp).threw THEN Fulfilled(NewsFallback(v))
  ELSE Fulfilled(TryFinancialNews(v, resp).value)

\* getAllMarketData: Promise.all of the four promises, and the catch block
\* that throws the error on
getAllMarketData(results) ==
  IF \E p \in Providers : results[p].status = "rejected" THEN Rejected
  ELSE Fulfilled([crypto |-> results["crypto"].value,
                  gold |-> results["gold"].value,
                  fearGreed |-> results["fearGreed"].value,
                  news |-> results["news"].value])

\* the bodies the providers answer with
Coin(usd, change) == Some([usd |-> usd, usd_24h_change |-> change])
CryptoBodies ==
  { [bitcoin |-> Absent, ethereum |-> Absent],
    [bitcoin |-> Coin(Some(NumOfInt(45000)), Some(Dec(15, 10))), ethereum |-> Absent],
    [bitcoin |-> Coin(Some(NumOfInt(45000)), Some(Dec(15, 10))),
     ethereum |-> Coin(Some(NumOfInt(2700)), Absent)],
    [bitcoin |-> Coin(Absent, Absent), ethereum |-> Coin(Absent, Some(NumZero))] }

Quote(mid, ask) == [mid |-> mid, ask |-> ask]
TradermadeBodies ==
  { [quotes |-> Absent],
    [quotes |-> Some(<<>>)],
    [quotes |-> Some(<<Quote(Some(NumOfInt(2100)), Some(NumOfInt(2101)))>>)],
    [quotes |-> Some(<<Quote(Absent, Some(NumOfInt(2101)))>>)],
    [quotes |-> Some(<<Quote(Absent, Absent)>>)] }

MetalsLiveBodies ==
  { [price |-> Absent, change |-> Absent, change_percent |-> Absent],
    [price |-> Some(NumOfInt(2095)), change |-> Some(NumOfInt(-4)),
     change_percent |-> Some(Dec(-19, 100))],
    [price |-> Some(NumOfInt(2095)), change |-> Some(NumZero), change_percent |-> Absent] }

Reading(value, cls, ts) == [value |-> value, value_classification |-> cls, timestamp |-> ts]
FearGreedBodies ==
  { [data |-> Absent],
    [data |-> Some(<<>>)],
    [data |-> Some(<<Reading(Some(<<"7", "2">>), Some("Greed"), Some("1700000000"))>>)],
    [data |-> Some(<<Reading(Some(<<"2", "5", "x">>), Some("Fear"), Absent)>>)],
    [data |-> Some(<<Reading(Absent, Absent, Absent)>>)] }

Article(title, description, content, source_name) ==
  [title |-> title, description |-> description, content |-> content,
   link |-> Absent, source_name |-> source_name, source_id |-> Absent]
Articles ==
  << Article(Some("Bitcoin rallies past resistance"), Some("Analysts see momentum"),
             Absent, Some("Coin Desk")),
     Article(Some("[Removed]"), Some("[Removed]"), Absent, Absent),
     Article(Absent, Absent, Absent, Absent),
     Article(Some("Gold dips"), Some(""), Some("Spot gold fell"), Absent),
     Article(Some("Markets close mixed on Friday"), Absent, Absent, Absent) >>
NewsBodies ==
  { [status |-> "error", results |-> Absent],
    [status |-> "success", results |-> Absent],
    [status |-> "success", results |-> Some(<<>>)],
    [status |-> "success", results |-> Some(Articles)] }

Responses(bodies) == FailedFetches \cup {Json(b) : b \in bodies}

Started == [pc |-> "primary", responses |-> <<>>, result |-> Pending]
Settled(f, resp, result) ==
  [pc |-> "settled", responses |-> Append(f.responses, resp), result |-> result]

InitMarket ==
  /\ variant = "client"
  /\ fetches = [p \in Providers |-> [pc |-> "idle", responses |-> <<>>, result |-> Pending]]
  /\ marketData = [status |-> "idle"]

\* getAllMarketData is called: the four requests go out
CallGetAllMarketData ==
  /\ marketData.status # "pending"
  /\ variant' \in Variants
  /\ fetches' = [p \in Providers |-> Started]
  /\ marketData' = Pending
  /\ UNCHANGED <<avars, qvars, xvars>>

CryptoSettles ==
  /\ fetches["crypto"].pc = "primary"
  /\ \E resp \in Responses(CryptoBodies) :
       fetches' = [fetches EXCEPT
                     !["crypto"] = Settled(@, resp, getCryptoPrices(resp))]
  /\ UNCHANGED <<variant, marketData, avars, qvars, xvars>>

\* the first request of getGoldPrice is answered: Tradermade in the client,
\* metals.live in the edge function
GoldPrimarySettles ==
  /\ fetches["gold"].pc = "primary"
  /\ IF variant = "edge"
     THEN \E resp \in Responses(MetalsLiveBodies) :
            fetches' = [fetches EXCEPT !["gold"] = Settled(@, resp, getGoldPriceEdge(resp))]
     ELSE \E resp \in Responses(TradermadeBodies) :
            fetches' = [fetches EXCEPT !["gold"] =
              IF TryGoldTradermade(resp).threw
              THEN [pc |-> "fallback", responses |-> <<resp>>, result |-> Pending]
              ELSE Settled(@, resp, Fulfilled(TryGoldTradermade(resp).value))]
  /\ UNCHANGED <<variant, marketData, avars, qvars, xvars>>

\* the client's second request, to metals.live, is answered
GoldFallbackSettles ==
  /\ fetches["gold"].pc = "fallback"
  /\ \E resp \in Responses(MetalsLiveBodies) :
       fetches' = [fetches EXCEPT !["gold"] = Settled(@, resp, GoldAfterFallback(resp))]
  /\ UNCHANGED <<variant, marketData, avars, qvars, xvars>>

FearGreedSettles ==
  /\ fetches["fearGreed"].pc = "primary"
  /\ \E resp \in Responses(FearGreedBodies) :
       fetches' = [fetches EXCEPT
                     !["fearGreed"] = Settled(@, resp, getFearGreedIndex(resp))]
  /\ UNCHANGED <<variant, marketData, avars, qvars, xvars>>

NewsSettles ==
  /\ fetches["news"].pc = "primary"
  /\ \E resp \in Responses(NewsBodies) :
       fetches' = [fetches EXCEPT
                     !["news"] = Settled(@, resp, getFinancialNews(variant, resp))]
  /\ UNCHANGED <<variant, marketData, avars, qvars, xvars>>

\* Promise.all settles: with all four fulfilled, or with the first rejected
MarketDataSettles ==
  /\ marketData.status = "pending"
  /\ \/ \A p \in Providers : fetches[p].pc = "settled"
     \/ \E p \in Providers : fetches[p].result.status = "rejected"
  /\ marketData' = getAllMarketData([p \in Providers |-> fetches[p].result])
  /\ UNCHANGED <<variant, fetches, avars, qvars, xvars>>

NextMarket ==
  \/ CallGetAllMarketData
  \/ CryptoSettles
  \/ GoldPrimarySettles
  \/ GoldFallbackSettles
  \/ FearGreedSettles
  \/ NewsSettles
  \/ MarketDataSettles

\* ------------------------------------------------------------------------
\* The assistant service (EnhancedAIService): the quota cooldown,
\* retryWithBackoff and the three operations that call the model
\* ------------------------------------------------------------------------
CooldownHours == 24
MaxRetries == 2
Callers == {"a", "b"}
Operations == {"processMessage", "analyzeScreenshot", "analyzeCryptoScreenshot"}

\* a quota check that lets every call through
checkQuotaStatusOpen(exceeded, resetTime, t) ==
  [ok |-> TRUE, quotaExceeded |-> FALSE, quotaResetTime |-> Absent]

\* a quota check that takes the flag of another user's turn to be over
checkQuotaStatusForgetful(exceeded, resetTime, t) ==
  IF exceeded /\ resetTime # Absent
  THEN [ok |-> TRUE, quotaExceeded |-> FALSE, quotaResetTime |-> Absent]
  ELSE [ok |-> ~exceeded, quotaExceeded |-> exceeded, quotaResetTime |-> resetTime]

\* checkQuotaStatus at time t: whether calls are allowed, and the fields as
\* it leaves them
checkQuotaStatus(exceeded, resetTime, t) ==
  IF exceeded /\ resetTime # Absent
  THEN IF t - resetTime[1] >= CooldownHours
       THEN [ok |-> TRUE, quotaExceeded |-> FALSE, quotaResetTime |-> Absent]
       ELSE [ok |-> FALSE, quotaExceeded |-> exceeded, quotaResetTime |-> resetTime]
  ELSE [ok |-> ~exceeded, quotaExceeded |-> exceeded, quotaResetTime |-> resetTime]

\* an error message as its words; message.includes(w)
Includes(message, w) == \E i \in 1..Len(message) : message[i] = w
IsQuotaMessage(message) ==
  Includes(message, "429") \/ Includes(message, "quota") \/ Includes(message, "exceeded")

\* what generateContent comes to: a completion that is the JSON asked for,
\* a completion that is not, or an error
Completion(parses) == [kind |-> "completion", parses |-> parses]
Failure(message) == [kind |-> "error", message |-> message]
Replies ==
  { Completion(TRUE), Completion(FALSE),
    Failure(<<"429", "Too", "Many", "Requests">>),
    Failure(<<"Resource", "exhausted", "check", "quota">>),
    Failure(<<"fetch", "failed">>),
    Failure(<<"503", "Service", "Unavailable">>) }

NoCall ==
  [op |-> "none", pc |-> "idle", attempt |-> 0, requests |-> 0, outcome |-> "none",
   refused |-> FALSE]
Call(op, pc, attempt, requests, outcome, refused) ==
  [op |-> op, pc |-> pc, attempt |-> attempt, requests |-> requests,
   outcome |-> outcome, refused |-> refused]

\* how an operation ends on a completion: processMessage returns the text as
\* it is, the screenshot operations throw the generic error when no JSON can
\* be extracted from it
OutcomeOfCompletion(op, reply) ==
  IF op = "processMessage" \/ reply.parses THEN "completion" ELSE "generic"

InitQuota ==
  /\ quotaExceeded = FALSE
  /\ quotaResetTime = Absent
  /\ now = 0
  /\ calls = [c \in Callers |-> NoCall]

\* processMessage, analyzeScreenshot or analyzeCryptoScreenshot is called:
\* the quota check at its entry
Invoke ==
  \E c \in Callers, op \in Operations :
    /\ calls[c].pc \in {"idle", "done"}
    /\ quotaExceeded' = checkQuotaStatus(quotaExceeded, quotaResetTime, now).quotaExceeded
    /\ quotaResetTime' = checkQuotaStatus(quotaExceeded, quotaResetTime, now).quotaResetTime
    /\ calls' = [calls EXCEPT ![c] =
         IF checkQuotaStatus(quotaExceeded, quotaResetTime, now).ok
         THEN Call(op, "preparing", 0, 0, "none", FALSE)
         ELSE Call(op, "done", 0, 0, "limit", TRUE)]
    /\ UNCHANGED <<now, avars, mvars, xvars>>

\* the operation has built its prompt and calls retryWithBackoff, which
\* checks the quota once more; its quota error reaches the operation's catch
\* block, which marks the quota exceeded
EnterRetry ==
  \E c \in Callers :
    /\ calls[c].pc = "preparing"
    /\ IF checkQuotaStatus(quotaExceeded, quotaResetTime, now).ok
       THEN /\ quotaExceeded' =
                 checkQuotaStatus(quotaExceeded, quotaResetTime, now).quotaExceeded
            /\ quotaResetTime' =
                 checkQuotaStatus(quotaExceeded, quotaResetTime, now).quotaResetTime
            /\ calls' = [calls EXCEPT ![c].pc = "attempting", ![c].attempt = 1]
       ELSE /\ quotaExceeded' = TRUE
            /\ quotaResetTime' = Some(now)
            /\ calls' = [calls EXCEPT ![c].pc = "done", ![c].outcome = "limit"]
    /\ UNCHANGED <<now, avars, mvars, xvars>>

\* one attempt of retryWithBackoff: the request to the model and its reply
Attempt ==
  \E c \in Callers, reply \in Replies :
    /\ calls[c].pc = "attempting"
    /\ IF reply.kind = "completion"
       THEN /\ calls' = [calls EXCEPT ![c].requests = @ + 1, ![c].pc = "done",
                           ![c].outcome = OutcomeOfCompletion(calls[c].op, reply)]
            /\ UNCHANGED <<quotaExceeded, quotaResetTime>>
       ELSE IF IsQuotaMessage(reply.message)
       THEN /\ calls' = [calls EXCEPT ![c].requests = @ + 1, ![c].pc = "done",
                           ![c].outcome = "limit"]
            /\ quotaExceeded' = TRUE
            /\ quotaResetTime' = Some(now)
       ELSE IF calls[c].attempt = MaxRetries
       THEN /\ calls' = [calls EXCEPT ![c].requests = @ + 1, ![c].pc = "done",
                           ![c].outcome = "generic"]
            /\ UNCHANGED <<quotaExceeded, quotaResetTime>>
       ELSE /\ calls' = [calls EXCEPT ![c].requests = @ + 1, ![c].pc = "backoff"]
            /\ UNCHANGED <<quotaExceeded, quotaResetTime>>
    /\ UNCHANGED <<now, avars, mvars, xvars>>

\* the delay of retryWithBackoff is over: the next attempt
BackoffElapsed ==
  \E c \in Callers :
    /\ calls[c].pc = "backoff"
    /\ calls' = [calls EXCEPT ![c].pc = "attempting", ![c].attempt = @ + 1]
    /\ UNCHANGED <<quotaExceeded, quotaResetTime, now, avars, mvars, xvars>>

\* isQuotaAvailable
IsQuotaAvailable ==
  /\ quotaExceeded' = checkQuotaStatus(quotaExceeded, quotaResetTime, now).quotaExceeded
  /\ quotaResetTime' = checkQuotaStatus(quotaExceeded, quotaResetTime, now).quotaResetTime
  /\ UNCHANGED <<now, calls, avars, mvars, xvars>>

\* time passes
Tick ==
  /\ now + TickHours <= MaxNow
  /\ now' = now + TickHours
  /\ UNCHANGED <<quotaExceeded, quotaResetTime, calls, avars, mvars, xvars>>

NextQuota ==
  \/ Invoke
  \/ EnterRetry
  \/ Attempt
  \/ BackoffElapsed
  \/ IsQuotaAvailable
  \/ Tick

\* ------------------------------------------------------------------------
\* retryWithBackoff, in the two EnhancedAIService classes
\* ------------------------------------------------------------------------
\* the class at lines 7-554 and the class at lines 561-1479
Services == {"first", "second"}

\* the default of the maxRetries parameter; no caller passes another value
DefaultMaxRetries(service) == IF service = "first" THEN 3 ELSE MaxRetries
\* the default of the baseDelay parameter, in milliseconds
DefaultBaseDelay(service) == IF service = "first" THEN 1000 ELSE 2000

RECURSIVE Pow2(_)
Pow2(n) == IF n = 0 THEN 1 ELSE 2 * Pow2(n - 1)

\* Math.random() * 1000, at the two ends of its range (whole milliseconds)
Jitters == {0, 999}
\* baseDelay * Math.pow(2, attempt - 1) + Math.random() * 1000
BackoffDelay(baseDelay, attempt, jitter) == baseDelay * Pow2(attempt - 1) + jitter

\* the errors retryWithBackoff of the second class creates itself
QuotaCheckError == <<"AI", "analysis", "quota", "exceeded">>
QuotaTodayError == <<"AI", "analysis", "quota", "exceeded", "for", "today">>

\* the catch block of the first class: rethrow at the cap, wait and go on
\* after a quota error, rethrow every other error at once
CatchOfFirst(attempt, maxRetries, message) ==
  IF attempt = maxRetries THEN "throw"
  ELSE IF Includes(message, "429") \/ Includes(message, "quota") THEN "delay"
  ELSE "throw"

\* the catch block of the second class: a quota error marks the quota and
\* ends the loop, any other error is rethrown at the cap and retried before
CatchOfSecond(attempt, maxRetries, message) ==
  IF IsQuotaMessage(message) THEN "quota"
  ELSE IF attempt = maxRetries THEN "throw"
  ELSE "delay"

CatchOf(service, attempt, maxRetries, message) ==
  IF service = "first" THEN CatchOfFirst(attempt, maxRetries, message)
  ELSE CatchOfSecond(attempt, maxRetries, message)

NoRetry ==
  [service |-> "second", pc |-> "idle", maxRetries |-> 0, attempt |-> 0,
   replies |-> <<>>, delays |-> <<>>, returned |-> Absent, thrown |-> Absent]

InitRetry == retry = NoRetry

\* retryWithBackoff is called with the default parameters: the second class
\* checks the quota first and throws without calling the operation
RetryWithBackoff ==
  \E service \in Services :
    /\ retry.pc \in {"idle", "returned", "threw"}
    /\ IF service = "second" /\ ~checkQuotaStatus(quotaExceeded, quotaResetTime, now).ok
       THEN /\ retry' = [NoRetry EXCEPT !.service = service, !.pc = "threw",
                           !.maxRetries = DefaultMaxRetries(service),
                           !.thrown = Some(QuotaCheckError)]
            /\ UNCHANGED <<quotaExceeded, quotaResetTime>>
       ELSE /\ retry' = [NoRetry EXCEPT !.service = service, !.pc = "attempting",
                           !.maxRetries = DefaultMaxRetries(service),
                           !.attempt = 1]
            /\ IF service = "second"
               THEN /\ quotaExceeded' =
                         checkQuotaStatus(quotaExceeded, quotaResetTime, now).quotaExceeded
                    /\ quotaResetTime' =
                         checkQuotaStatus(quotaExceeded, quotaResetTime, now).quotaResetTime
               ELSE UNCHANGED <<quotaExceeded, quotaResetTime>>
    /\ UNCHANGED <<now, calls, avars, mvars, notRetry>>

\* await operation() settles: the result is returned, or the catch block runs
OperationSettles ==
  \E reply \in Replies, jitter \in Jitters :
    /\ retry.pc = "attempting"
    /\ IF reply.kind = "completion"
       THEN /\ retry' = [retry EXCEPT !.replies = Append(@, reply), !.pc = "returned",
                           !.returned = Some(reply)]
            /\ UNCHANGED <<quotaExceeded, quotaResetTime>>
       ELSE IF CatchOf(retry.service, retry.attempt, retry.maxRetries, reply.message) = "quota"
       THEN /\ retry' = [retry EXCEPT !.replies = Append(@, reply), !.pc = "threw",
                           !.thrown = Some(QuotaTodayError)]
            /\ quotaExceeded' = TRUE
            /\ quotaResetTime' = Some(now)
       ELSE IF CatchOf(retry.service, retry.attempt, retry.maxRetries, reply.message) = "throw"
       THEN /\ retry' = [retry EXCEPT !.replies = Append(@, reply), !.pc = "threw",
                           !.thrown = Some(reply.message)]
            /\ UNCHANGED <<quotaExceeded, quotaResetTime>>
       ELSE /\ retry' = [retry EXCEPT !.replies = Append(@, reply), !.pc = "waiting",
                           !.delays = Append(@, BackoffDelay(DefaultBaseDelay(retry.service),
                                                             retry.attempt, jitter))]
            /\ UNCHANGED <<quotaExceeded, quotaResetTime>>
    /\ UNCHANGED <<now, calls, avars, mvars, notRetry>>

\* the timer of the delay fires: the loop goes on with the next attempt
DelayElapsed ==
  /\ retry.pc = "waiting"
  /\ retry' = [retry EXCEPT !.pc = "attempting", !.attempt = @ + 1]
  /\ UNCHANGED <<avars, mvars, qvars, notRetry>>

NextRetry ==
  \/ RetryWithBackoff
  \/ OperationSettles
  \/ DelayElapsed
  \/ Tick

\* ------------------------------------------------------------------------
\* The text turn: processMessage and the conversation context
\* ------------------------------------------------------------------------
MaxContext == 20
HistoryLimit == 20
Users == {"u1", "u2"}
Slots == {1, 2}

Min(a, b) == IF a < b THEN a ELSE b

\* an entry of a conversation context and a row of chat_messages
Entry(role, content, timestamp) ==
  [role |-> role, content |-> content, timestamp |-> timestamp]
Row(message, message_type, created_at) ==
  [message |-> message, message_type |-> message_type, created_at |-> created_at]

\* context.splice(0, n)
SpliceFront(context, n) == SubSeq(context, n + 1, Len(context))
\* context.push(entry) with no cut
PushNoTrim(context, entry) == Append(context, entry)

\* context.push(entry), then the cut to the last 20
PushAndTrim(context, entry) ==
  IF Len(context) + 1 > MaxContext
  THEN SpliceFront(Append(context, entry), Len(context) + 1 - MaxContext)
  ELSE Append(context, entry)

\* this.conversationContexts.get(userId) || []
ContextOf(contexts, userId) ==
  IF contexts[userId] = Absent THEN <<>> ELSE contexts[userId][1]

addToConversationContext(contexts, userId, role, content, t) ==
  [contexts EXCEPT ![userId] =
     Some(PushAndTrim(ContextOf(contexts, userId), Entry(role, content, t)))]

clearConversationContext(contexts, userId) == [contexts EXCEPT ![userId] = Absent]

\* from('chat_messages').eq('user_id', userId)
\*   .order('created_at', { ascending: true }).limit(20)
SelectChatMessages(rows) == SubSeq(rows, 1, Min(Len(rows), HistoryLimit))

\* messages.forEach(msg => context.push({...}))
ContextOfRows(rows) ==
  [i \in 1..Len(rows) |->
     Entry(IF rows[i].message_type = "user" THEN "user" ELSE "assistant",
           rows[i].message, rows[i].created_at)]

\* what a store query comes to: { data }, { data: null, error }, or a
\* rejected promise
StoreRows(rows) == [kind |-> "rows", rows |-> rows]
StoreError == [kind |-> "error", message |-> <<"permission", "denied">>]
StoreThrew == [kind |-> "threw", message |-> <<"Failed", "to", "fetch">>]

\* loadConversationContextFromDB, once its query has settled
loadConversationContextFromDB(contexts, userId, outcome) ==
  IF outcome.kind = "rows" /\ Len(outcome.rows) > 0
  THEN [contexts EXCEPT ![userId] = Some(ContextOfRows(outcome.rows))]
  ELSE contexts

\* the strings processMessage returns besides the completion
DailyLimitReply == "I'm currently at my daily usage limit for AI responses."
ChatLimitReply == "I've reached my daily chat limit!"
GenericReply == "I'm having trouble processing your message right now."

\* a catch block that answers every error alike
CatchOfProcessMessageGeneric(message) == GenericReply

\* the catch block of processMessage
CatchOfProcessMessage(message) ==
  IF IsQuotaMessage(message) THEN ChatLimitReply ELSE GenericReply

\* the messages users send, the replies of the model and the stored rows
MessageText(k) == "message " \o ToString(k)
ReplyTexts == {"reply A", "reply B"}
ChatCompletion(text) == [kind |-> "completion", text |-> text]
ChatReplies ==
  {ChatCompletion(text) : text \in ReplyTexts} \cup
  { Failure(<<"429", "Too", "Many", "Requests">>),
    Failure(<<"fetch", "failed">>) }

\* the rows a user has in chat_messages before the page is opened: the
\* turns of earlier visits, a user row and an ai row each
StoredRow(userId, i, n) ==
  Row(userId \o " stored " \o ToString(i), IF i % 2 = 1 THEN "user" ELSE "ai", i - n - 1)
StoredRows(userId, n) == [i \in 1..n |-> StoredRow(userId, i, n)]
StoredCounts == {0, 2, MaxContext, MaxContext + 2}

\* what the two queries for the trading context come to
SessionRows == {<<>>, <<"s1">>}
TradeRows == {<<>>, <<50, -20>>}
SessionsOutcomes == {StoreRows(r) : r \in SessionRows} \cup {StoreError, StoreThrew}
TradesOutcomes == {StoreRows(r) : r \in TradeRows} \cup {StoreError, StoreThrew}
LoadOutcomes(rows) == {StoreRows(SelectChatMessages(rows)), StoreError, StoreThrew}

\* { data } of a query outcome: null when the store reports an error
DataOf(outcome) == IF outcome.kind = "rows" THEN Some(outcome.rows) ELSE Absent

RECURSIVE IntSum(_)
IntSum(q) == IF q = <<>> THEN 0 ELSE Head(q) + IntSum(Tail(q))
CountWins(q) == Cardinality({i \in 1..Len(q) : q[i] > 0})

\* totalProfit, winningTrades, totalTrades and winRate of the prompt
TradingStats(trades) ==
  [totalProfit |-> IF trades = Absent THEN 0 ELSE IntSum(trades[1]),
   winningTrades |-> IF trades = Absent THEN 0 ELSE CountWins(trades[1]),
   totalTrades |-> IF trades = Absent THEN 0 ELSE Len(trades[1]),
   winRate |-> IF trades = Absent \/ trades[1] = <<>> THEN 0
               ELSE (CountWins(trades[1]) * 100) \div Len(trades[1])]

NoTurn ==
  [userId |-> "u1", message |-> "", pc |-> "idle", attempt |-> 0, requests |-> 0,
   sessions |-> Absent, prompt |-> Absent, storeFailed |-> FALSE, threw |-> Absent,
   refused |-> FALSE, completion |-> Absent, result |-> Pending]

InitChat ==
  /\ conversationContexts = [u \in Users |-> Absent]
  /\ chatMessages = [u \in Users |-> <<>>]
  /\ turns = [k \in Slots |-> NoTurn]
  /\ nextMessage = 1
  /\ interfaces = 1
  /\ cleared = [u \in Users |-> "no"]

\* the chat is opened on a store that holds the rows of earlier visits
InitChatStored ==
  /\ conversationContexts = [u \in Users |-> Absent]
  /\ \E n \in StoredCounts :
       chatMessages = [u \in Users |-> StoredRows(u, n)]
  /\ turns = [k \in Slots |-> NoTurn]
  /\ nextMessage = 1
  /\ interfaces = 1
  /\ cleared = [u \in Users |-> "no"]

\* two chat interfaces use the service, so that two turns can overlap
OverlapCounts == {0, 2}
InitChatOverlap ==
  /\ conversationContexts = [u \in Users |-> Absent]
  /\ \E n \in OverlapCounts :
       chatMessages = [u \in Users |-> StoredRows(u, n)]
  /\ turns = [k \in Slots |-> NoTurn]
  /\ nextMessage = 1
  /\ interfaces = 2
  /\ cleared = [u \in Users |-> "no"]

\* the turn goes on after the context is there: the user message is added
\* and the sessions query is sent
AfterContext(turn) == [turn EXCEPT !.pc = "sessions"]

\* the turn ends in the catch block of processMessage
Caught(turn, message) ==
  [turn EXCEPT !.pc = "done", !.threw = Some(message),
               !.result = Fulfilled(CatchOfProcessMessage(message))]

\* the trades query filters on the first session's id, or on '' when there
\* is none, which the uuid column rejects
TradesOutcomesFor(sessionsData) ==
  IF sessionsData = Absent \/ sessionsData[1] = <<>> THEN {StoreError, StoreThrew}
  ELSE TradesOutcomes

\* processMessage is called: the quota check at its entry, then the context
\* is loaded when the user has none, else the message is added at once
ProcessMessage ==
  \E k \in Slots, u \in Users :
    /\ k <= interfaces
    /\ turns[k].pc = "idle"
    /\ \A j \in Slots : j < k => turns[j].pc # "idle"
    /\ nextMessage <= MaxTurns
    /\ nextMessage' = nextMessage + 1
    /\ quotaExceeded' = checkQuotaStatus(quotaExceeded, quotaResetTime, now).quotaExceeded
    /\ quotaResetTime' = checkQuotaStatus(quotaExceeded, quotaResetTime, now).quotaResetTime
    /\ IF ~checkQuotaStatus(quotaExceeded, quotaResetTime, now).ok
       THEN /\ turns' = [turns EXCEPT ![k] =
                 [NoTurn EXCEPT !.userId = u, !.message = MessageText(nextMessage),
                                !.pc = "done", !.refused = TRUE,
                                !.result = Fulfilled(DailyLimitReply)]]
            /\ UNCHANGED conversationContexts
       ELSE IF conversationContexts[u] = Absent
       THEN /\ turns' = [turns EXCEPT ![k] =
                 [NoTurn EXCEPT !.userId = u, !.message = MessageText(nextMessage),
                                !.pc = "loading"]]
            /\ UNCHANGED conversationContexts
       ELSE /\ turns' = [turns EXCEPT ![k] =
                 AfterContext([NoTurn EXCEPT !.userId = u,
                                             !.message = MessageText(nextMessage)])]
            /\ conversationContexts' =
                 addToConversationContext(conversationContexts, u, "user",
                                          MessageText(nextMessage), now)
    /\ cleared' = IF cleared[u] = "cleared"
                  THEN [cleared EXCEPT ![u] = MessageText(nextMessage)]
                  ELSE cleared
    /\ UNCHANGED <<chatMessages, interfaces, now, calls, avars, mvars, notChat>>

\* the query of loadConversationContextFromDB settles; the turn goes on
\* whatever it came to
ContextLoads ==
  \E k \in Slots :
    /\ turns[k].pc = "loading"
    /\ \E outcome \in LoadOutcomes(chatMessages[turns[k].userId]) :
         /\ conversationContexts' =
              addToConversationContext(
                loadConversationContextFromDB(conversationContexts, turns[k].userId, outcome),
                turns[k].userId, "user", turns[k].message, now)
         /\ turns' = [turns EXCEPT ![k] =
              AfterContext([turns[k] EXCEPT !.storeFailed = outcome.kind # "rows"])]
    /\ UNCHANGED <<chatMessages, nextMessage, interfaces, cleared, avars, mvars, qvars, notChat>>

\* the trading_sessions query settles
SessionsQuerySettles ==
  \E k \in Slots, outcome \in SessionsOutcomes :
    /\ turns[k].pc = "sessions"
    /\ IF outcome.kind = "threw"
       THEN /\ turns' = [turns EXCEPT ![k] =
                 Caught([turns[k] EXCEPT !.storeFailed = TRUE], outcome.message)]
            /\ IF IsQuotaMessage(outcome.message)
               THEN quotaExceeded' = TRUE /\ quotaResetTime' = Some(now)
               ELSE UNCHANGED <<quotaExceeded, quotaResetTime>>
       ELSE /\ turns' = [turns EXCEPT ![k].pc = "trades",
                                      ![k].sessions = DataOf(outcome),
                                      ![k].storeFailed = @ \/ outcome.kind = "error"]
            /\ UNCHANGED <<quotaExceeded, quotaResetTime>>
    /\ UNCHANGED <<conversationContexts, chatMessages, nextMessage, interfaces, cleared, now,
                   calls, avars, mvars, notChat>>

\* the trades query settles: the prompt is built and retryWithBackoff is
\* entered, which checks the quota once more
TradesQuerySettles ==
  \E k \in Slots :
    /\ turns[k].pc = "trades"
    /\ \E outcome \in TradesOutcomesFor(turns[k].sessions) :
         IF outcome.kind = "threw"
         THEN /\ turns' = [turns EXCEPT ![k] =
                   Caught([turns[k] EXCEPT !.storeFailed = TRUE], outcome.message)]
              /\ IF IsQuotaMessage(outcome.message)
                 THEN quotaExceeded' = TRUE /\ quotaResetTime' = Some(now)
                 ELSE UNCHANGED <<quotaExceeded, quotaResetTime>>
         ELSE IF ~checkQuotaStatus(quotaExceeded, quotaResetTime, now).ok
         THEN /\ turns' = [turns EXCEPT ![k] =
                   Caught([turns[k] EXCEPT
                             !.storeFailed = @ \/ outcome.kind = "error",
                             !.prompt = Some([stats |-> TradingStats(DataOf(outcome)),
                                              history |-> ContextOf(conversationContexts,
                                                                    turns[k].userId)])],
                          QuotaCheckError)]
              /\ quotaExceeded' = TRUE
              /\ quotaResetTime' = Some(now)
         ELSE /\ turns' = [turns EXCEPT
                   ![k].pc = "attempting", ![k].attempt = 1,
                   ![k].storeFailed = @ \/ outcome.kind = "error",
                   ![k].prompt = Some([stats |-> TradingStats(DataOf(outcome)),
                                       history |-> ContextOf(conversationContexts,
                                                             turns[k].userId)])]
              /\ quotaExceeded' =
                   checkQuotaStatus(quotaExceeded, quotaResetTime, now).quotaExceeded
              /\ quotaResetTime' =
                   checkQuotaStatus(quotaExceeded, quotaResetTime, now).quotaResetTime
    /\ UNCHANGED <<conversationContexts, chatMessages, nextMessage, interfaces, cleared, now,
                   calls, avars, mvars, notChat>>

\* generateContent settles: the completion is added to the context and
\* returned, or the catch blocks of retryWithBackoff and processMessage run
GenerateSettles ==
  \E k \in Slots, reply \in ChatReplies :
    /\ turns[k].pc = "attempting"
    /\ IF reply.kind = "completion"
       THEN /\ turns' = [turns EXCEPT ![k].pc = "done", ![k].requests = @ + 1,
                                      ![k].completion = Some(reply.text),
                                      ![k].result = Fulfilled(reply.text)]
            /\ conversationContexts' =
                 addToConversationContext(conversationContexts, turns[k].userId,
                                          "assistant", reply.text, now)
            /\ UNCHANGED <<quotaExceeded, quotaResetTime>>
       ELSE IF CatchOfSecond(turns[k].attempt, MaxRetries, reply.message) = "quota"
       THEN /\ turns' = [turns EXCEPT ![k] =
                 Caught([turns[k] EXCEPT !.requests = @ + 1], QuotaTodayError)]
            /\ quotaExceeded' = TRUE
            /\ quotaResetTime' = Some(now)
            /\ UNCHANGED conversationContexts
       ELSE IF CatchOfSecond(turns[k].attempt, MaxRetries, reply.message) = "throw"
       THEN /\ turns' = [turns EXCEPT ![k] =
                 Caught([turns[k] EXCEPT !.requests = @ + 1], reply.message)]
            /\ IF IsQuotaMessage(reply.message)
               THEN quotaExceeded' = TRUE /\ quotaResetTime' = Some(now)
               ELSE UNCHANGED <<quotaExceeded, quotaResetTime>>
            /\ UNCHANGED conversationContexts
       ELSE /\ turns' = [turns EXCEPT ![k].pc = "backoff", ![k].requests = @ + 1]
            /\ UNCHANGED <<quotaExceeded, quotaResetTime, conversationContexts>>
    /\ UNCHANGED <<chatMessages, nextMessage, interfaces, cleared, now, calls, avars, mvars,
                   notChat>>

\* the delay of retryWithBackoff is over
TurnDelayElapsed ==
  \E k \in Slots :
    /\ turns[k].pc = "backoff"
    /\ turns' = [turns EXCEPT ![k].pc = "attempting", ![k].attempt = @ + 1]
    /\ UNCHANGED <<conversationContexts, chatMessages, nextMessage, interfaces, cleared,
                   avars, mvars, qvars, notChat>>

\* clearConversationContext
ClearConversationContext ==
  \E u \in Users :
    /\ conversationContexts' = clearConversationContext(conversationContexts, u)
    /\ cleared' = [cleared EXCEPT ![u] = "cleared"]
    /\ UNCHANGED <<chatMessages, turns, nextMessage, interfaces, avars, mvars, qvars,
                   notChat>>

\* saveChatMessage after a turn: the user row, then the ai row; an insert
\* that fails is passed over. The turn is over for its caller
SaveChatMessage ==
  \E k \in Slots, userSaved \in BOOLEAN, aiSaved \in BOOLEAN :
    /\ turns[k].pc = "done"
    /\ chatMessages' = [chatMessages EXCEPT ![turns[k].userId] =
         @ \o (IF userSaved THEN <<Row(turns[k].message, "user", now)>> ELSE <<>>)
           \o (IF aiSaved THEN <<Row(turns[k].result.value, "ai", now)>> ELSE <<>>)]
    /\ turns' = [turns EXCEPT ![k] = NoTurn]
    /\ UNCHANGED <<conversationContexts, nextMessage, interfaces, cleared, avars, mvars, qvars,
                   notChat>>

NextChat ==
  \/ ProcessMessage
  \/ ContextLoads
  \/ SessionsQuerySettles
  \/ TradesQuerySettles
  \/ GenerateSettles
  \/ TurnDelayElapsed
  \/ ClearConversationContext
  \/ SaveChatMessage

\* ------------------------------------------------------------------------
\* The store: tables, foreign keys and row-level policies; tradingService
\* ------------------------------------------------------------------------
SessionRow(id, user_id, initial_capital, current_capital) ==
  [id |-> id, user_id |-> user_id, initial_capital |-> initial_capital,
   current_capital |-> current_capital]
TradeRow(id, session_id, profit_loss) ==
  [id |-> id, session_id |-> session_id, profit_loss |-> profit_loss]

\* the errors the store reports in { error }
RlsViolation == [code |-> "42501", message |-> "new row violates row-level security policy"]
FkViolation == [code |-> "23503", message |-> "violates foreign key constraint"]
NotOneRow == [code |-> "PGRST116", message |-> "JSON object requested, multiple (or no) rows returned"]
Unreachable == [code |-> "", message |-> "TypeError: Failed to fetch"]

\* what a store call comes to: the tables after it and { data, error }
StoreReply(sessionsT, tradesT, data, error) ==
  [sessionsT |-> sessionsT, tradesT |-> tradesT, data |-> data, error |-> error]

\* the policies on trading_sessions: auth.uid() = user_id
SessionPolicy(uid, row) == uid = row.user_id
\* the policies on trades: EXISTS (a session with trades.session_id that
\* belongs to auth.uid())
TradePolicy(uid, sessionsT, row) ==
  \E ses \in sessionsT : ses.id = row.session_id /\ ses.user_id = uid

\* trades_session_id_fkey ... ON DELETE CASCADE
CascadeDelete(tradesT, deletedSessions) ==
  {t \in tradesT : \A ses \in deletedSessions : t.session_id # ses.id}
\* trades_session_id_fkey on insert and update
FkHolds(sessionsT, row) == \E ses \in sessionsT : ses.id = row.session_id

\* from('trading_sessions').select('*').eq('user_id', userId)
SelectSessions(uid, sessionsT, tradesT, userId) ==
  StoreReply(sessionsT, tradesT,
             Some({ses \in sessionsT : SessionPolicy(uid, ses) /\ ses.user_id = userId}),
             Absent)

\* from('trading_sessions').insert({...}).select().single()
InsertSession(uid, sessionsT, tradesT, row) ==
  IF SessionPolicy(uid, row)
  THEN StoreReply(sessionsT \cup {row}, tradesT, Some(row), Absent)
  ELSE StoreReply(sessionsT, tradesT, Absent, Some(RlsViolation))

\* a delete that leaves the trades of the deleted sessions in place
DeleteSessionRowsOnly(uid, sessionsT, tradesT, sessionId) ==
  StoreReply({ses \in sessionsT : ~(SessionPolicy(uid, ses) /\ ses.id = sessionId)},
             tradesT, Absent, Absent)

\* from('trading_sessions').delete().eq('id', sessionId)
DeleteSessionRows(uid, sessionsT, tradesT, sessionId) ==
  StoreReply({ses \in sessionsT : ~(SessionPolicy(uid, ses) /\ ses.id = sessionId)},
             CascadeDelete(tradesT,
                           {ses \in sessionsT : SessionPolicy(uid, ses) /\ ses.id = sessionId}),
             Absent, Absent)

\* from('trading_sessions').update({ current_capital, updated_at }).eq('id', sessionId)
UpdateSessionRows(uid, sessionsT, tradesT, sessionId, newCapital) ==
  StoreReply({IF SessionPolicy(uid, ses) /\ ses.id = sessionId
              THEN [ses EXCEPT !.current_capital = newCapital] ELSE ses : ses \in sessionsT},
             tradesT, Absent, Absent)

\* from('trades').select('*').eq('session_id', sessionId)
SelectTrades(uid, sessionsT, tradesT, sessionId) ==
  StoreReply(sessionsT, tradesT,
             Some({t \in tradesT : TradePolicy(uid, sessionsT, t) /\ t.session_id = sessionId}),
             Absent)

\* from('trades').insert(trade).select().single()
InsertTrade(uid, sessionsT, tradesT, row) ==
  IF ~TradePolicy(uid, sessionsT, row)
  THEN StoreReply(sessionsT, tradesT, Absent, Some(RlsViolation))
  ELSE IF ~FkHolds(sessionsT, row)
  THEN StoreReply(sessionsT, tradesT, Absent, Some(FkViolation))
  ELSE StoreReply(sessionsT, tradesT \cup {row}, Some(row), Absent)

\* the updates of a Partial<Trade> applied to a row
Patched(row, updates) ==
  [f \in DOMAIN row |-> IF f \in DOMAIN updates THEN updates[f] ELSE row[f]]

\* from('trades').update(updates).eq('id', tradeId).select().single()
UpdateTradeRows(uid, sessionsT, tradesT, tradeId, updates) ==
  IF \A t \in tradesT : ~(TradePolicy(uid, sessionsT, t) /\ t.id = tradeId)
  THEN StoreReply(sessionsT, tradesT, Absent, Some(NotOneRow))
  ELSE IF \E t \in tradesT :
            /\ TradePolicy(uid, sessionsT, t) /\ t.id = tradeId
            /\ ~FkHolds(sessionsT, Patched(t, updates))
  THEN StoreReply(sessionsT, tradesT, Absent, Some(FkViolation))
  ELSE IF \E t \in tradesT :
            /\ TradePolicy(uid, sessionsT, t) /\ t.id = tradeId
            /\ ~TradePolicy(uid, sessionsT, Patched(t, updates))
  THEN StoreReply(sessionsT, tradesT, Absent, Some(RlsViolation))
  ELSE StoreReply(sessionsT,
                  {IF TradePolicy(uid, sessionsT, t) /\ t.id = tradeId
                   THEN Patched(t, updates) ELSE t : t \in tradesT},
                  Some(Patched(CHOOSE t \in tradesT : t.id = tradeId, updates)),
                  Absent)

\* from('trades').delete().eq('id', tradeId)
DeleteTradeRows(uid, sessionsT, tradesT, tradeId) ==
  StoreReply(sessionsT,
             {t \in tradesT : ~(TradePolicy(uid, sessionsT, t) /\ t.id = tradeId)},
             Absent, Absent)

\* the store cannot be reached: nothing changes and { error } says so
StoreUnreachable(sessionsT, tradesT) ==
  StoreReply(sessionsT, tradesT, Absent, Some(Unreachable))

\* a select answered with neither data nor error
StoreNoData(sessionsT, tradesT) == StoreReply(sessionsT, tradesT, Absent, Absent)
\* how a select may be answered
SelectAnswers == {"rows", "no data", "unreachable"}

RejectedWith(reason) == [status |-> "rejected", reason |-> reason]

\* an operation that answers a store error with its fallback value
SwallowOrReturn(reply, fallback) ==
  Fulfilled(IF reply.data = Absent THEN fallback ELSE reply.data[1])

\* if (error) throw error; return data || fallback
ThrowOrReturn(reply, fallback) ==
  IF reply.error # Absent THEN RejectedWith(reply.error[1])
  ELSE Fulfilled(IF reply.data = Absent THEN fallback ELSE reply.data[1])

\* the values an operation gives back when the store sends no data
EmptyList == {}
Null == "null"
Undefined == "undefined"

Ids == 1..MaxIds
Capitals == {1000}
NewCapitals == {900}
TradeProfits == {50, -20}
TradeUpdates == {[profit_loss |-> 70]} \cup {[session_id |-> id] : id \in Ids}

\* the record of an operation; the rows its store call removed are kept
\* with it
NoOp ==
  [op |-> "none", uid |-> "u1", storeCalls |-> 0, data |-> Absent, error |-> Absent,
   result |-> Pending, removedSessions |-> {}, removedTrades |-> {}]
Op(op, uid, reply, result, removedSessions, removedTrades) ==
  [op |-> op, uid |-> uid, storeCalls |-> 1, data |-> reply.data, error |-> reply.error,
   result |-> result,
   removedSessions |-> removedSessions, removedTrades |-> removedTrades]

InitStore ==
  /\ tradingSessionsTable = {}
  /\ tradesTable = {}
  /\ nextId = 1
  /\ lastOp = NoOp

\* one operation of tradingService by the signed-in user uid: its one store
\* call changes the tables, and its reply decides how the operation ends
Operate(op, uid, reply, fallback) ==
  /\ tradingSessionsTable' = reply.sessionsT
  /\ tradesTable' = reply.tradesT
  /\ lastOp' = Op(op, uid, reply, ThrowOrReturn(reply, fallback),
                  tradingSessionsTable \ reply.sessionsT, tradesTable \ reply.tradesT)
  /\ UNCHANGED <<avars, mvars, qvars, notStore>>

GetSessions ==
  \E uid \in Users, userId \in Users, answer \in SelectAnswers :
    /\ Operate("getSessions", uid,
               IF answer = "rows"
               THEN SelectSessions(uid, tradingSessionsTable, tradesTable, userId)
               ELSE IF answer = "no data"
               THEN StoreNoData(tradingSessionsTable, tradesTable)
               ELSE StoreUnreachable(tradingSessionsTable, tradesTable),
               EmptyList)
    /\ UNCHANGED nextId

CreateSession ==
  \E uid \in Users, userId \in Users, capital \in Capitals, reached \in BOOLEAN :
    /\ nextId <= MaxIds
    /\ Operate("createSession", uid,
               IF reached
               THEN InsertSession(uid, tradingSessionsTable, tradesTable,
                                  SessionRow(nextId, userId, capital, capital))
               ELSE StoreUnreachable(tradingSessionsTable, tradesTable),
               Null)
    /\ nextId' = IF reached THEN nextId + 1 ELSE nextId

DeleteSession ==
  \E uid \in Users, sessionId \in Ids, reached \in BOOLEAN :
    /\ Operate("deleteSession", uid,
               IF reached
               THEN DeleteSessionRows(uid, tradingSessionsTable, tradesTable, sessionId)
               ELSE StoreUnreachable(tradingSessionsTable, tradesTable),
               Undefined)
    /\ UNCHANGED nextId

GetTrades ==
  \E uid \in Users, sessionId \in Ids, answer \in SelectAnswers :
    /\ Operate("getTrades", uid,
               IF answer = "rows"
               THEN SelectTrades(uid, tradingSessionsTable, tradesTable, sessionId)
               ELSE IF answer = "no data"
               THEN StoreNoData(tradingSessionsTable, tradesTable)
               ELSE StoreUnreachable(tradingSessionsTable, tradesTable),
               EmptyList)
    /\ UNCHANGED nextId

AddTrade ==
  \E uid \in Users, sessionId \in Ids, profit \in TradeProfits, reached \in BOOLEAN :
    /\ nextId <= MaxIds
    /\ Operate("addTrade", uid,
               IF reached
               THEN InsertTrade(uid, tradingSessionsTable, tradesTable,
                                TradeRow(nextId, sessionId, profit))
               ELSE StoreUnreachable(tradingSessionsTable, tradesTable),
               Null)
    /\ nextId' = IF reached THEN nextId + 1 ELSE nextId

UpdateTrade ==
  \E uid \in Users, tradeId \in Ids, updates \in TradeUpdates, reached \in BOOLEAN :
    /\ Operate("updateTrade", uid,
               IF reached
               THEN UpdateTradeRows(uid, tradingSessionsTable, tradesTable, tradeId, updates)
               ELSE StoreUnreachable(tradingSessionsTable, tradesTable),
               Null)
    /\ UNCHANGED nextId

DeleteTrade ==
  \E uid \in Users, tradeId \in Ids, reached \in BOOLEAN :
    /\ Operate("deleteTrade", uid,
               IF reached
               THEN DeleteTradeRows(uid, tradingSessionsTable, tradesTable, tradeId)
               ELSE StoreUnreachable(tradingSessionsTable, tradesTable),
               Undefined)
    /\ UNCHANGED nextId

UpdateSessionCapital ==
  \E uid \in Users, sessionId \in Ids, newCapital \in NewCapitals, reached \in BOOLEAN :
    /\ Operate("updateSessionCapital", uid,
               IF reached
               THEN UpdateSessionRows(uid, tradingSessionsTable, tradesTable,
                                      sessionId, newCapital)
               ELSE StoreUnreachable(tradingSessionsTable, tradesTable),
               Undefined)
    /\ UNCHANGED nextId

NextStore ==
  \/ GetSessions
  \/ CreateSession
  \/ DeleteSession
  \/ GetTrades
  \/ AddTrade
  \/ UpdateTrade
  \/ DeleteTrade
  \/ UpdateSessionCapital

\* ------------------------------------------------------------------------
\* The other ways to the store: the chat history and the ai-chat function
\* ------------------------------------------------------------------------
\* the policies on chat_messages: auth.uid() = user_id
ChatPolicy(uid, userId) == uid = userId

\* a function that reads only for the user the request comes from
FunctionUserOfCaller(caller, userId) == caller

\* the user whose rows the ai-chat function reads: userId of the request body
FunctionUser(caller, userId) == userId

\* the ai-chat function reads with the service role key, so no policy
\* applies: the sessions of userId and the trades of those sessions
ServiceRoleSessions(sessionsT, userId) == {ses \in sessionsT : ses.user_id = userId}
ServiceRoleTrades(sessionsT, tradesT, userId) ==
  {t \in tradesT : \E ses \in sessionsT : ses.id = t.session_id /\ ses.user_id = userId}

\* a request to the ai-chat function by a signed-in caller, with any userId
\* in its body; the rows it reads go into the prompt of the answer
AiChatRequest ==
  \E caller \in Users, userId \in Users, reached \in BOOLEAN :
    /\ lastOp' =
         [op |-> "ai-chat", uid |-> caller, storeCalls |-> IF reached THEN 2 ELSE 1,
          data |-> IF reached
                   THEN Some([sessions |-> ServiceRoleSessions(tradingSessionsTable,
                                             FunctionUser(caller, userId)),
                              trades |-> ServiceRoleTrades(tradingSessionsTable, tradesTable,
                                             FunctionUser(caller, userId))])
                   ELSE Absent,
          error |-> IF reached THEN Absent ELSE Some(Unreachable),
          result |-> Fulfilled(IF reached THEN 200 ELSE 500),
          removedSessions |-> {}, removedTrades |-> {}]
    /\ UNCHANGED <<tradingSessionsTable, tradesTable, nextId, avars, mvars, qvars, notStore>>

\* getChatHistory(userId) by the signed-in user uid
GetChatHistory ==
  \E uid \in Users, userId \in Users, reached \in BOOLEAN :
    /\ lastOp' =
         [op |-> "getChatHistory", uid |-> uid, storeCalls |-> 1,
          data |-> IF reached
                   THEN Some([user_id |-> userId,
                              rows |-> IF ChatPolicy(uid, userId)
                                       THEN chatMessages[userId] ELSE <<>>])
                   ELSE Absent,
          error |-> IF reached THEN Absent ELSE Some(Unreachable),
          result |-> Fulfilled(IF reached /\ ChatPolicy(uid, userId)
                               THEN chatMessages[userId] ELSE <<>>),
          removedSessions |-> {}, removedTrades |-> {}]
    /\ UNCHANGED <<tradingSessionsTable, tradesTable, nextId, avars, mvars, qvars, notStore>>

\* saveChatMessage(userId, message, response) by the signed-in user uid: two
\* inserts, whose errors are passed over
SaveChatMessageAs ==
  \E uid \in Users, userId \in Users, reached \in BOOLEAN :
    /\ chatMessages[userId] = <<>>
    /\ chatMessages' = [chatMessages EXCEPT ![userId] =
         IF reached /\ ChatPolicy(uid, userId)
         THEN <<Row(MessageText(1), "user", now), Row("reply A", "ai", now)>>
         ELSE <<>>]
    /\ lastOp' =
         [op |-> "saveChatMessage", uid |-> uid, storeCalls |-> 2, data |-> Absent,
          error |-> IF ~reached THEN Some(Unreachable)
                    ELSE IF ChatPolicy(uid, userId) THEN Absent ELSE Some(RlsViolation),
          result |-> Fulfilled(Undefined),
          removedSessions |-> {}, removedTrades |-> {}]
    /\ UNCHANGED <<tradingSessionsTable, tradesTable, nextId, conversationContexts, turns,
                   nextMessage, interfaces, cleared, rvars, avars, mvars, qvars, yvars>>

NextAccess ==
  \/ GetSessions
  \/ CreateSession
  \/ DeleteSession
  \/ GetTrades
  \/ AddTrade
  \/ UpdateTrade
  \/ DeleteTrade
  \/ UpdateSessionCapital
  \/ AiChatRequest
  \/ GetChatHistory
  \/ SaveChatMessageAs

\* ------------------------------------------------------------------------
\* The ai-chat function: search trigger, web search, handler
\* (supabase/functions/ai-chat/index.ts)
\* ------------------------------------------------------------------------

\* strings, as the functions below use them
CharAt(str, i) == SubSeq(str, i, i)

UpperCaseLetters == "ABCDEFGHIJKLMNOPQRSTUVWXYZ"
LowerCaseLetters == "abcdefghijklmnopqrstuvwxyz"
DigitChars == "0123456789"

CharsOf(str) == {CharAt(str, i) : i \in 1..Len(str)}

\* String.prototype.toLowerCase, on the characters the messages are made of
LowerChar(c) ==
  IF \E i \in 1..Len(UpperCaseLetters) : CharAt(UpperCaseLetters, i) = c
  THEN CharAt(LowerCaseLetters, CHOOSE i \in 1..Len(UpperCaseLetters) :
                                   CharAt(UpperCaseLetters, i) = c)
  ELSE c

RECURSIVE ToLowerCase(_)
ToLowerCase(str) ==
  IF str = "" THEN "" ELSE LowerChar(Head(str)) \o ToLowerCase(Tail(str))

\* String.prototype.trim: white space and line ends leave both ends
WhiteSpace == {" ", "\t", "\n", "\r"}

RECURSIVE TrimStart(_)
TrimStart(str) ==
  IF str # "" /\ Head(str) \in WhiteSpace THEN TrimStart(Tail(str)) ELSE str

RECURSIVE TrimEnd(_)
TrimEnd(str) ==
  IF str # "" /\ CharAt(str, Len(str)) \in WhiteSpace
  THEN TrimEnd(SubSeq(str, 1, Len(str) - 1))
  ELSE str

TrimString(str) == TrimEnd(TrimStart(str))

\* String.prototype.includes
StringIncludes(str, part) ==
  \E i \in 1..(Len(str) - Len(part) + 1) : SubSeq(str, i, i + Len(part) - 1) = part

\* \w of a regular expression
WordChars == CharsOf(UpperCaseLetters) \cup CharsOf(LowerCaseLetters)
               \cup CharsOf(DigitChars) \cup {"_"}

\* /\b(word)\b/.test(str), for a word that begins and ends with a \w
TestWord(str, word) ==
  \E i \in 1..(Len(str) - Len(word) + 1) :
    /\ SubSeq(str, i, i + Len(word) - 1) = word
    /\ i = 1 \/ CharAt(str, i - 1) \notin WordChars
    /\ i + Len(word) - 1 = Len(str) \/ CharAt(str, i + Len(word)) \notin WordChars

\* /^(a|b|...)$/i.test(str): the whole of str is one of the alternatives
TestWhole(str, alternatives) == ToLowerCase(str) \in alternatives

alwaysSearchKeywords ==
  {"price", "market", "trading", "stock", "crypto", "bitcoin", "ethereum", "forex",
   "usd", "eur", "gbp", "jpy",
   "bull", "bear", "rally", "crash", "pump", "dump", "volatility", "volume", "chart",
   "analysis",
   "fed", "federal reserve", "interest rate", "inflation", "gdp", "unemployment",
   "cpi", "ppi",
   "gold", "silver", "oil", "gas", "commodity", "bond", "yield", "treasury",
   "war", "conflict", "election", "president", "government", "policy", "sanction",
   "trade war",
   "ukraine", "russia", "china", "usa", "europe", "middle east", "israel", "palestine",
   "nato", "un", "united nations", "g7", "g20", "summit", "meeting", "agreement",
   "treaty",
   "today", "now", "current", "latest", "recent", "breaking", "news", "update", "live",
   "right now", "this moment", "currently", "just happened", "happening",
   "weather", "temperature", "rain", "storm", "hurricane", "earthquake", "disaster",
   "sports", "match", "game", "won", "lost", "score", "championship", "tournament",
   "apple", "microsoft", "google", "amazon", "tesla", "nvidia", "meta", "netflix",
   "earnings", "revenue", "profit", "loss", "ipo", "merger", "acquisition",
   "dow jones", "nasdaq", "s&p 500", "ftse", "nikkei", "hang seng", "dax",
   "binance", "coinbase", "ftx", "kraken", "bybit", "okx"}

questionPatterns ==
  {"what is", "what are", "what's", "whats", "how much", "how many",
   "who is", "who are", "who won", "who lost", "where is", "when is",
   "why is", "why are", "how is", "how are", "tell me about",
   "what happened", "what's happening", "any news", "latest on"}

SpecificEntities ==
  {"bitcoin", "btc", "ethereum", "eth", "tesla", "apple", "microsoft", "google",
   "amazon", "nvidia", "meta", "netflix", "dow", "nasdaq", "s&p", "ftse", "nikkei",
   "dax", "fed", "ecb", "boe", "rbi", "pboc"}

Geopolitical ==
  {"usa", "america", "china", "russia", "ukraine", "europe", "japan", "india",
   "pakistan", "israel", "palestine", "iran", "north korea", "south korea", "taiwan",
   "hong kong", "singapore", "uk", "germany", "france", "italy", "spain", "canada",
   "australia", "brazil", "mexico"}

Currencies ==
  {"usd", "eur", "gbp", "jpy", "cny", "inr", "pkr", "aud", "cad", "chf", "nzd", "krw",
   "sgd", "hkd", "mxn", "brl", "rub", "try", "zar"}

needsRealTimeSearch(message) ==
  LET lowerMessage == TrimString(ToLowerCase(message))
      hasMarketKeywords == \E keyword \in alwaysSearchKeywords :
                             StringIncludes(lowerMessage, keyword)
      hasQuestionPattern == \E pattern \in questionPatterns :
                              StringIncludes(lowerMessage, pattern)
      hasSpecificEntities == \E word \in SpecificEntities : TestWord(lowerMessage, word)
      hasGeopolitical == \E word \in Geopolitical : TestWord(lowerMessage, word)
      hasCurrency == \E word \in Currencies : TestWord(lowerMessage, word)
  IN hasMarketKeywords \/ hasQuestionPattern \/ hasSpecificEntities
       \/ hasGeopolitical \/ hasCurrency

needsTimeContext(query) ==
  \E keyword \in {"today", "now", "current", "latest", "recent", "breaking"} :
    StringIncludes(ToLowerCase(query), keyword)

isFinancialQuery(query) ==
  \E keyword \in {"price", "stock", "crypto", "bitcoin", "ethereum", "market",
                  "trading", "forex"} :
    StringIncludes(ToLowerCase(query), keyword)

\* skipSearchPatterns of the handler
skipSearchPatterns ==
  {{"hi", "hello", "hey", "good morning", "good afternoon", "good evening"},
   {"thanks", "thank you", "ok", "okay", "yes", "no"},
   {"how are you", "what's up", "sup"}}

shouldSkipSearch(message) ==
  \E pattern \in skipSearchPatterns : TestWhole(TrimString(message), pattern)

\* a handler that searches for all but the skip patterns
SearchFiresAlways(message) == ~shouldSkipSearch(message)

\* the handler's test: does this message go to performWebSearch
SearchFires(message) == ~shouldSkipSearch(message) /\ needsRealTimeSearch(message)

\* what the handler is asked
Messages ==
  {"hi", "  Thanks ", "how are you", "How are you?", "good luck", "see you later",
   "bitcoin price today"}

\* the messages for which the handler calls performWebSearch
SearchedMessages == {message \in Messages : SearchFires(message)}

\* a field of a JSON object, or '' when the object has none: field || ''
FieldOr(object, field) == IF field \in DOMAIN object THEN object[field] ELSE ""

SearchHit(n) ==
  [title |-> "title " \o ToString(n), snippet |-> "snippet " \o ToString(n),
   link |-> "https://example.org/" \o ToString(n)]

\* how many results the provider is asked for and how many are used
TopN == 5

\* bodies the search provider answers with
SearchBodies ==
  {[searchParameters |-> "q"],
   [searchParameters |-> "q", organic |-> <<>>],
   [searchParameters |-> "q", organic |-> <<[title |-> "title only"]>>],
   [searchParameters |-> "q", organic |-> <<>>, knowledgeGraph |-> [title |-> "Bitcoin"]],
   [searchParameters |-> "q", organic |-> <<>>,
    answerBox |-> [snippet |-> "about 60,000 USD"]],
   [searchParameters |-> "q", organic |-> [n \in 1..(TopN + 1) |-> SearchHit(n)],
    answerBox |-> [answer |-> "60,000 USD"],
    knowledgeGraph |-> [title |-> "Bitcoin", description |-> "a currency"]]}

\* what becomes of the fetch of performWebSearch: it rejects, it answers with
\* a status that is not a success, its body is no JSON, or it answers a body
SearchOutcomes ==
  {[kind |-> "rejected"], [kind |-> "status"], [kind |-> "invalid"]}
    \cup {[kind |-> "json", data |-> d] : d \in SearchBodies}

optimizedQuery(query) ==
  IF isFinancialQuery(query) THEN query \o " price market analysis"
  ELSE IF needsTimeContext(query) THEN query \o " <currentDate>"
  ELSE query

RECURSIVE FormatResults(_, _)
FormatResults(results, index) ==
  IF index > Len(results) THEN ""
  ELSE ToString(index) \o ". **" \o results[index].title \o "**\n"
         \o "   " \o results[index].snippet \o "\n"
         \o "   Source: " \o results[index].link \o "\n\n"
         \o FormatResults(results, index + 1)

\* the text performWebSearch makes of a body
SearchContextOf(query, data) ==
  LET organic == IF "organic" \in DOMAIN data THEN data.organic ELSE <<>>
      results == [i \in 1..Min(Len(organic), TopN) |->
                    [title |-> FieldOr(organic[i], "title"),
                     snippet |-> FieldOr(organic[i], "snippet"),
                     link |-> FieldOr(organic[i], "link")]]
      knowledgeGraph ==
        IF "knowledgeGraph" \in DOMAIN data
        THEN "Quick Facts: " \o FieldOr(data.knowledgeGraph, "title") \o " - "
               \o FieldOr(data.knowledgeGraph, "description") \o "\n\n"
        ELSE ""
      answerBox ==
        IF "answerBox" \in DOMAIN data
        THEN "Direct Answer: "
               \o (IF FieldOr(data.answerBox, "answer") # ""
                   THEN data.answerBox.answer ELSE FieldOr(data.answerBox, "snippet"))
               \o "\n\n"
        ELSE ""
  IN IF Len(results) = 0 /\ knowledgeGraph = "" /\ answerBox = "" THEN ""
     ELSE "LIVE INTERNET SEARCH RESULTS for \"" \o query \o "\":\n\n"
            \o answerBox \o knowledgeGraph \o "Latest Information:\n"
            \o FormatResults(results, 1)

\* the try block of performWebSearch: what it returns or that it throws
SearchBody(query, hasKey, outcome) ==
  IF ~hasKey THEN Fulfilled("")
  ELSE IF outcome.kind = "rejected" THEN RejectedWith("fetch failed")
  ELSE IF outcome.kind = "status" THEN Fulfilled("")
  ELSE IF outcome.kind = "invalid" THEN RejectedWith("Unexpected token")
  ELSE Fulfilled(SearchContextOf(query, outcome.data))

\* performWebSearch without its catch block
performWebSearchUncaught(query, hasKey, outcome) == SearchBody(query, hasKey, outcome)

\* performWebSearch: what the try block throws is caught and '' is returned
performWebSearch(query, hasKey, outcome) ==
  IF SearchBody(query, hasKey, outcome).status = "rejected"
  THEN Fulfilled("")
  ELSE SearchBody(query, hasKey, outcome)

\* if (searchContext) of the handler
HasSearchData(searchContext) == searchContext # ""

currentDate == "2026-11-01"

\* replies of the text-generation endpoint to the handler's fetch
ModelOutcomes ==
  {[kind |-> "rejected"], [kind |-> "status"], [kind |-> "json", text |-> Some("reply A")],
   [kind |-> "json", text |-> Absent]}

NoCandidateReply == "Sorry, I could not process your request."

\* a response of the function
Response(status, body) == [status |-> status, body |-> body]

ErrorResponse(details) ==
  Response(500, [error |-> "Failed to process chat request", details |-> details])

\* the function before its first request
NoRequest ==
  [pc |-> "idle", userId |-> "", message |-> "", originalMessage |-> Absent,
   hasLiveData |-> FALSE, searchCalls |-> 0, searchQueries |-> <<>>,
   searchReply |-> Absent,
   searchContext |-> "", hasSearchData |-> FALSE, enrichedMessage |-> "",
   sessions |-> {}, systemPrompt |-> Absent, modelCalls |-> 0, response |-> Absent]

InitFunction == request = NoRequest

\* the handler from "if (searchContext)" to the sessions query
AfterSearch(req, searchContext) ==
  [req EXCEPT !.pc = "sessions",
              !.searchContext = searchContext,
              !.hasSearchData = HasSearchData(searchContext),
              !.enrichedMessage = IF HasSearchData(searchContext)
                                  THEN req.message \o "\n\n" \o searchContext
                                  ELSE req.message]

\* systemPrompt of the handler: the parts that depend on the request
SystemPrompt(req, trades) ==
  [totalSessions |-> Cardinality(req.sessions),
   totalTrades |-> Cardinality(trades),
   liveSearch |-> IF req.hasSearchData
                  THEN Some([originalMessage |-> IF req.originalMessage # Absent
                                                 THEN req.originalMessage[1]
                                                 ELSE req.message,
                             searchContext |-> req.searchContext])
                  ELSE Absent,
   liveData |-> IF req.hasLiveData
                THEN Some([originalMessage |-> req.originalMessage,
                           enrichedMessage |-> req.enrichedMessage])
                ELSE Absent]

\* an OPTIONS request is answered at once
Preflight ==
  /\ request.pc \in {"idle", "done"}
  /\ request' = [NoRequest EXCEPT !.pc = "done", !.response = Some(Response(200, Null))]
  /\ UNCHANGED <<zvars, jvars, uvars>>

\* a chat request arrives: the handler runs up to its first await, which is
\* the fetch of performWebSearch when the search fires and a key is set and
\* the sessions query otherwise
ServeChat ==
  \E message \in Messages, userId \in Users, hasLiveData \in BOOLEAN, hasKey \in BOOLEAN :
    /\ request.pc \in {"idle", "done"}
    /\ LET req == [NoRequest EXCEPT !.userId = userId, !.message = message,
                                    !.hasLiveData = hasLiveData,
                                    !.originalMessage = IF hasLiveData
                                                        THEN Some(message) ELSE Absent,
                                    !.enrichedMessage = message]
       IN request' =
            IF message \in SearchedMessages
            THEN IF hasKey
                 THEN [req EXCEPT !.pc = "search", !.searchCalls = 1,
                                  !.searchQueries = <<optimizedQuery(message)>>]
                 ELSE AfterSearch([req EXCEPT !.searchCalls = 1],
                                  performWebSearch(message, FALSE,
                                                   [kind |-> "rejected"]).value)
            ELSE [req EXCEPT !.pc = "sessions"]
    /\ UNCHANGED <<zvars, jvars, uvars>>

\* the fetch of performWebSearch settles and the handler goes on
WebSearchSettles ==
  \E outcome \in SearchOutcomes :
    /\ request.pc = "search"
    /\ request' =
         IF performWebSearch(request.message, TRUE, outcome).status = "rejected"
         THEN [request EXCEPT !.pc = "done", !.searchReply = Some(outcome),
                 !.response = Some(ErrorResponse(
                   performWebSearch(request.message, TRUE, outcome).reason))]
         ELSE AfterSearch([request EXCEPT !.searchReply = Some(outcome)],
                          performWebSearch(request.message, TRUE, outcome).value)
    /\ UNCHANGED <<zvars, jvars, uvars>>

\* the sessions query of the handler settles
FunctionSessionsSettle ==
  \E reached \in BOOLEAN :
    /\ request.pc = "sessions"
    /\ request' =
         IF reached
         THEN [request EXCEPT !.pc = "trades",
                 !.sessions = ServiceRoleSessions(tradingSessionsTable, request.userId)]
         ELSE [request EXCEPT !.pc = "done",
                 !.response = Some(ErrorResponse("Failed to fetch sessions"))]
    /\ UNCHANGED <<zvars, jvars, uvars>>

\* the trades query settles; the handler builds the prompt and calls the model
FunctionTradesSettle ==
  \E reached \in BOOLEAN :
    /\ request.pc = "trades"
    /\ request' =
         IF reached
         THEN [request EXCEPT !.pc = "model",
                 !.systemPrompt = Some(SystemPrompt(request,
                    ServiceRoleTrades(tradingSessionsTable, tradesTable, request.userId))),
                 !.modelCalls = @ + 1]
         ELSE [request EXCEPT !.pc = "done",
                 !.response = Some(ErrorResponse("Failed to fetch trades"))]
    /\ UNCHANGED <<zvars, jvars, uvars>>

\* the model answers and the handler responds
ModelSettles ==
  \E outcome \in ModelOutcomes :
    /\ request.pc = "model"
    /\ request' = [request EXCEPT !.pc = "done", !.response =
         IF outcome.kind = "rejected" THEN Some(ErrorResponse("fetch failed"))
         ELSE IF outcome.kind = "status"
         THEN Some(ErrorResponse("Gemini API request failed"))
         ELSE Some(Response(200,
                [message |-> IF outcome.text # Absent THEN outcome.text[1]
                             ELSE NoCandidateReply,
                 hasLiveData |-> request.hasSearchData \/ request.hasLiveData,
                 searchPerformed |-> request.hasSearchData]))]
    /\ UNCHANGED <<zvars, jvars, uvars>>

NextFunction ==
  \/ Preflight
  \/ ServeChat
  \/ WebSearchSettles
  \/ FunctionSessionsSettle
  \/ FunctionTradesSettle
  \/ ModelSettles

\* ------------------------------------------------------------------------
\* Export and import of a session as JSON (exportToJSON, importFromJSON)
\* ------------------------------------------------------------------------

\* the values of JavaScript that sessions, trades and statistics are made of
JsNumber(n) == [type |-> "number", value |-> n]
JsString(str) == [type |-> "string", value |-> str]
JsNull == [type |-> "null"]
JsUndefined == [type |-> "undefined"]

\* object.key: the value of the property, undefined when the object has none
Property(object, key) == IF key \in DOMAIN object THEN object[key] ELSE JsUndefined

\* JSON.stringify of a number, a string or null, as the text it writes (the
\* strings here hold no character that JSON escapes)
JsonText(value) ==
  IF value.type = "number" THEN ToString(value.value)
  ELSE IF value.type = "string" THEN "\"" \o value.value \o "\""
  ELSE "null"

RECURSIVE ReadDigits(_, _)
ReadDigits(text, acc) ==
  IF text = "" THEN acc
  ELSE ReadDigits(Tail(text), 10 * acc + DigitValue(Head(text)))

\* JSON.parse of the text of a number, a string or null
JsonValue(text) ==
  IF text = "null" THEN JsNull
  ELSE IF Head(text) = "\"" THEN JsString(SubSeq(text, 2, Len(text) - 1))
  ELSE IF Head(text) = "-" THEN JsNumber(0 - ReadDigits(Tail(text), 0))
  ELSE JsNumber(ReadDigits(text, 0))

\* JSON.stringify of an object of such values: a property whose value is
\* undefined is left out, the others are written as their texts
StringifyObject(object) ==
  [key \in {k \in DOMAIN object : object[k] # JsUndefined} |-> JsonText(object[key])]

\* JSON.parse of what StringifyObject writes
ParseObject(members) == [key \in DOMAIN members |-> JsonValue(members[key])]

\* the object exportToJSON builds, leaving every other field out
ExportSessionAllFields(session) == session

ExportSession(session) ==
  [name |-> Property(session, "name"),
   initial_capital |-> Property(session, "initial_capital"),
   current_capital |-> Property(session, "current_capital"),
   created_at |-> Property(session, "created_at")]

ExportTradeAllFields(trade) == trade

ExportTrade(trade) ==
  [margin |-> Property(trade, "margin"),
   roi |-> Property(trade, "roi"),
   entry_side |-> Property(trade, "entry_side"),
   profit_loss |-> Property(trade, "profit_loss"),
   comments |-> Property(trade, "comments"),
   created_at |-> Property(trade, "created_at")]

\* JSON.stringify(exportData, null, 2)
ExportDataText(session, tradeList, stats) ==
  [session |-> StringifyObject(ExportSession(session)),
   trades |-> [i \in 1..Len(tradeList) |-> StringifyObject(ExportTrade(tradeList[i]))],
   statistics |-> StringifyObject(stats)]

\* session.name.replace(/\s+/g, '_')
RECURSIVE ReplaceWhiteSpace(_)
ReplaceWhiteSpace(str) ==
  IF str = "" THEN ""
  ELSE IF Head(str) \in WhiteSpace
  THEN "_" \o ReplaceWhiteSpace(TrimStart(str))
  ELSE Head(str) \o ReplaceWhiteSpace(Tail(str))

\* the file exportToJSON makes the browser download
exportToJSON(session, tradeList, stats) ==
  [name |-> ReplaceWhiteSpace(session.name.value) \o "_trading_session.json",
   kind |-> "json",
   text |-> ExportDataText(session, tradeList, stats)]

\* JSON.parse of the text of an exported file
ParseExport(text) ==
  [session |-> ParseObject(text.session),
   trades |-> [i \in 1..Len(text.trades) |-> ParseObject(text.trades[i])],
   statistics |-> ParseObject(text.statistics)]

\* importFromJSON: the promise it returns, for a file that is read and
\* parsed, one that is no JSON and one that cannot be read
importFromJSON(file) ==
  IF file.kind = "unreadable" THEN RejectedWith("Failed to read file")
  ELSE IF file.kind = "json" THEN Fulfilled(ParseExport(file.text))
  ELSE RejectedWith("Invalid JSON file")

\* sessions and trades as the store hands them out
ExportSessions ==
  {[id |-> JsString("s1"), user_id |-> JsString("u1"), name |-> JsString("June  swing"),
    initial_capital |-> JsNumber(1000), current_capital |-> JsNumber(950),
    session_type |-> JsString("Forex"), created_at |-> JsString("2025-06-01T00:00:00Z"),
    updated_at |-> JsString("2025-06-02T00:00:00Z")],
   [id |-> JsString("s2"), user_id |-> JsString("u1"), name |-> JsString("BTC"),
    initial_capital |-> JsNumber(500), current_capital |-> JsNumber(620),
    session_type |-> JsString("Crypto"), created_at |-> JsString("2025-07-01T00:00:00Z"),
    updated_at |-> JsString("2025-07-01T00:00:00Z")],
   [id |-> JsString("s3"), user_id |-> JsString("u2"), name |-> JsString(" gold\t2025 "),
    initial_capital |-> JsNumber(0), current_capital |-> JsNumber(-25),
    session_type |-> JsString("Forex"), created_at |-> JsString("2025-08-01T00:00:00Z"),
    updated_at |-> JsString("2025-08-03T00:00:00Z")]}

ExportTrades ==
  {[id |-> JsString("t1"), session_id |-> JsString("s1"), margin |-> JsNumber(100),
    roi |-> JsNumber(-50), entry_side |-> JsString("Long"), profit_loss |-> JsNumber(-50),
    created_at |-> JsString("2025-06-01T10:00:00Z")],
   [id |-> JsString("t2"), session_id |-> JsString("s1"), margin |-> JsNumber(200),
    roi |-> JsNumber(10), entry_side |-> JsString("Short"), profit_loss |-> JsNumber(20),
    comments |-> JsString("late entry"), created_at |-> JsString("2025-06-01T11:00:00Z")],
   [id |-> JsString("t3"), session_id |-> JsString("s1"), margin |-> JsNumber(0),
    roi |-> JsNumber(0), entry_side |-> JsString("Long"), profit_loss |-> JsNumber(0),
    comments |-> JsNull, created_at |-> JsString("2025-06-01T12:00:00Z"),
    symbol |-> JsString("EURUSD"), volume_lot |-> JsNumber(2), leverage |-> JsNumber(100)]}

\* how many trades an exported session has at most
MaxExportTrades == 2

ExportStats(tradeList) ==
  [totalTrades |-> JsNumber(Len(tradeList)),
   netProfitLoss |-> JsNumber(IntSum([i \in 1..Len(tradeList) |->
                                        tradeList[i].profit_loss.value]))]

NoExport == [session |-> Absent, trades |-> <<>>, file |-> Absent]

InitExport == export = NoExport /\ imported = Absent

\* the user exports a session with its trades
ExportToJSON ==
  \E session \in ExportSessions, tradeList \in SeqsUpTo(ExportTrades, MaxExportTrades) :
    /\ export' = [session |-> Some(session), trades |-> tradeList,
                  file |-> Some(exportToJSON(session, tradeList, ExportStats(tradeList)))]
    /\ imported' = Absent
    /\ UNCHANGED <<zvars, fvars, uvars>>

\* the user imports the exported file, and the promise settles
ImportExported ==
  /\ export.file # Absent
  /\ imported' = Some(importFromJSON(export.file[1]))
  /\ UNCHANGED <<export, zvars, fvars, uvars>>

\* the user imports some other file
ImportOther ==
  \E kind \in {"text", "unreadable"} :
    /\ imported' = Some(importFromJSON([name |-> "notes.txt", kind |-> kind,
                                        text |-> "not json"]))
    /\ UNCHANGED <<export, zvars, fvars, uvars>>

NextExport ==
  \/ ExportToJSON
  \/ ImportExported
  \/ ImportOther

\* ------------------------------------------------------------------------
\* The trade forms and the trades list (ForexTradeForm, CryptoTradeForm,
\* EnhancedTradesList)
\* ------------------------------------------------------------------------

SessionTypes == {"Forex", "Crypto"}

\* the field of formData that holds the profit or loss
PnlField(kind) == IF kind = "Forex" THEN "pnlUsd" ELSE "realizedPnl"

\* useState of formData, and what handleSubmit resets it to: of the fields
\* the margin and the profit or loss
InitialFormData(kind) ==
  IF kind = "Forex" THEN [margin |-> "1000", pnlUsd |-> ""]
  ELSE [margin |-> "", realizedPnl |-> ""]

\* what the user types into a field
FieldValues(field) ==
  IF field = "margin" THEN {"", "250"} ELSE {"", "20"}

NoUpload == [preview |-> Null, fileName |-> ""]

\* clearUpload: the preview and the file name go
clearUpload(upload) == NoUpload

\* the notices of react-hot-toast
ToastError(text) == [type |-> "error", text |-> text]
ToastSuccess(text) == [type |-> "success", text |-> text]

AddedText(kind) ==
  IF kind = "Forex" THEN "Forex trade added successfully"
  ELSE "Crypto trade added successfully"

ValidationText(kind) ==
  IF kind = "Forex" THEN "Please fill in margin and P/L fields"
  ELSE "Please fill in realized P&L and margin fields"

\* how many notices are on the screen at most, and how many calls of
\* onUpdateTrade are in flight at most
MaxToasts == 1
MaxInFlight == 2

\* the trade handleSubmit hands to onAddTrade
TradeOfForm(kind, data) ==
  [session_type |-> kind, margin |-> data.margin, profit_loss |-> data[PnlField(kind)]]

\* the rows of the list and what the user can change a comment to
ListedTrades == {[id |-> "t1", comments |-> "a"]}
CommentValues == {"a", "b"}

\* handleSubmit after await onAddTrade, with the reset whatever the outcome
AfterAddAlwaysReset(f, fulfilled) ==
  [f EXCEPT !.pc = "idle", !.loading = FALSE,
            !.result = IF fulfilled THEN "fulfilled" ELSE "rejected",
            !.formData = InitialFormData(f.kind),
            !.upload = clearUpload(f.upload)]

\* handleSubmit after await onAddTrade: reset and clearUpload when it is
\* fulfilled, nothing but the notice when it rejects, setLoading(false) in
\* either case
AfterAdd(f, fulfilled) ==
  IF fulfilled
  THEN [f EXCEPT !.pc = "idle", !.loading = FALSE, !.result = "fulfilled",
                 !.formData = InitialFormData(f.kind),
                 !.upload = clearUpload(f.upload)]
  ELSE [f EXCEPT !.pc = "idle", !.loading = FALSE, !.result = "rejected"]

InitFormOf(kind) ==
  /\ form = [kind |-> kind, formData |-> InitialFormData(kind), upload |-> NoUpload,
             loading |-> FALSE, pc |-> "idle", trade |-> Absent, result |-> "none"]
  /\ list = [editingTradeId |-> Null, editFormData |-> Absent, saves |-> <<>>,
             settled |-> Absent]
  /\ toasts = <<>>

\* the dashboard of a Forex session
InitForms == InitFormOf("Forex")

\* the dashboard of a session of either type
InitFormsAny == \E kind \in SessionTypes : InitFormOf(kind)

\* handleInputChange of a form
FormInputChange ==
  \E field \in {"margin", PnlField(form.kind)} :
    \E value \in FieldValues(field) :
      /\ form' = [form EXCEPT !.formData = [@ EXCEPT ![field] = value]]
      /\ UNCHANGED <<list, toasts, zvars, fvars, jvars>>

\* handleFile of a form, for a file that passes validateFile
HandleFile ==
  /\ form' = [form EXCEPT !.upload = [@ EXCEPT !.fileName = "shot.png"]]
  /\ UNCHANGED <<list, toasts, zvars, fvars, jvars>>

\* reader.onload of handleFile
PreviewLoaded ==
  /\ form.upload.fileName # "" /\ form.upload.preview = Null
  /\ form' = [form EXCEPT !.upload = [@ EXCEPT !.preview = "data:image/png"]]
  /\ UNCHANGED <<list, toasts, zvars, fvars, jvars>>

\* the user removes the upload
ClearUpload ==
  /\ form.upload # NoUpload
  /\ form' = [form EXCEPT !.upload = clearUpload(@)]
  /\ UNCHANGED <<list, toasts, zvars, fvars, jvars>>

\* handleSubmit up to await onAddTrade; the button is disabled while loading
HandleSubmit ==
  /\ ~form.loading
  /\ IF form.formData.margin = "" \/ form.formData[PnlField(form.kind)] = ""
     THEN /\ Len(toasts) < MaxToasts
          /\ toasts' = Append(toasts, ToastError(ValidationText(form.kind)))
          /\ UNCHANGED form
     ELSE /\ form' = [form EXCEPT !.loading = TRUE, !.pc = "awaiting", !.result = "pending",
                                  !.trade = Some(TradeOfForm(form.kind, form.formData))]
          /\ UNCHANGED toasts
  /\ UNCHANGED <<list, zvars, fvars, jvars>>

\* onAddTrade settles and handleSubmit runs to its end
AddTradeSettles ==
  \E fulfilled \in BOOLEAN :
    /\ form.pc = "awaiting"
    /\ Len(toasts) < MaxToasts
    /\ form' = AfterAdd(form, fulfilled)
    /\ toasts' = Append(toasts, IF fulfilled THEN ToastSuccess(AddedText(form.kind))
                                ELSE ToastError("Failed to add trade"))
    /\ UNCHANGED <<list, zvars, fvars, jvars>>

\* startEditing of a row
StartEditing ==
  \E trade \in ListedTrades :
    /\ list' = [list EXCEPT !.editingTradeId = trade.id,
                            !.editFormData = Some([comments |-> trade.comments])]
    /\ UNCHANGED <<form, toasts, zvars, fvars, jvars>>

\* handleInputChange of the list
ListInputChange ==
  \E value \in CommentValues :
    /\ list.editingTradeId # Null
    /\ list' = [list EXCEPT !.editFormData = Some([comments |-> value])]
    /\ UNCHANGED <<form, toasts, zvars, fvars, jvars>>

cancelEditing ==
  /\ list.editingTradeId # Null
  /\ list' = [list EXCEPT !.editingTradeId = Null, !.editFormData = Absent]
  /\ UNCHANGED <<form, toasts, zvars, fvars, jvars>>

\* saveEdit up to await onUpdateTrade
SaveEdit ==
  /\ list.editingTradeId # Null
  /\ Len(list.saves) < MaxInFlight
  /\ list' = [list EXCEPT !.saves = Append(@, [id |-> list.editingTradeId,
                                               data |-> list.editFormData])]
  /\ UNCHANGED <<form, toasts, zvars, fvars, jvars>>

Without(q, i) == [j \in 1..(Len(q) - 1) |-> IF j < i THEN q[j] ELSE q[j + 1]]

\* onUpdateTrade settles and saveEdit runs to its end
UpdateTradeSettles ==
  \E i \in 1..Len(list.saves), fulfilled \in BOOLEAN :
    /\ Len(toasts) < MaxToasts
    /\ list' = IF fulfilled
               THEN [list EXCEPT !.saves = Without(@, i), !.editingTradeId = Null,
                                 !.editFormData = Absent,
                                 !.settled = Some("fulfilled")]
               ELSE [list EXCEPT !.saves = Without(@, i), !.settled = Some("rejected")]
    /\ toasts' = Append(toasts, IF fulfilled THEN ToastSuccess("Trade updated successfully")
                                ELSE ToastError("Failed to update trade"))
    /\ UNCHANGED <<form, zvars, fvars, jvars>>

\* the notices leave the screen
ToastsDismissed ==
  /\ toasts # <<>>
  /\ toasts' = <<>>
  /\ UNCHANGED <<form, list, zvars, fvars, jvars>>

NextForms ==
  \/ FormInputChange
  \/ HandleFile
  \/ PreviewLoaded
  \/ ClearUpload
  \/ HandleSubmit
  \/ AddTradeSettles
  \/ StartEditing
  \/ ListInputChange
  \/ cancelEditing
  \/ SaveEdit
  \/ UpdateTradeSettles
  \/ ToastsDismissed

\* ------------------------------------------------------------------------
\* Cleaning of an extracted record (validateAndCleanExtractedData of
\* EnhancedAIService, the class with normalizePosition and normalizeReason)
\* ------------------------------------------------------------------------

\* the values JSON.parse puts in the fields of a reply; a number holds its
\* double
JsBoolean(b) == [type |-> "boolean", truth |-> b]
JsDouble(x) == [type |-> "number", double |-> x]
JsInfinity(sign) == [type |-> "number", infinite |-> sign]
NaN == [type |-> "number", nan |-> TRUE]

StartsWith(str, prefix) ==
  Len(str) >= Len(prefix) /\ SubSeq(str, 1, Len(prefix)) = prefix
Drop(str, n) == SubSeq(str, n + 1, Len(str))
\* str.slice(from - 1, to): the characters there are of those asked for
Slice(str, from, to) == SubSeq(str, from, IF to < Len(str) THEN to ELSE Len(str))

RECURSIVE LeadingDigits(_)
LeadingDigits(str) ==
  IF str # "" /\ Head(str) \in CharsOf(DigitChars)
  THEN Head(str) \o LeadingDigits(Tail(str))
  ELSE ""

RECURSIVE LeadingSpaces(_)
LeadingSpaces(str) ==
  IF str # "" /\ Head(str) \in WhiteSpace
  THEN Head(str) \o LeadingSpaces(Tail(str))
  ELSE ""

\* parseFloat: the longest prefix of the trimmed text that is a decimal
\* literal (sign, Infinity or digits with a fraction and an exponent), as the
\* double nearest to it; NaN when no prefix is one.  The digits of whole and
\* fraction together stay below 2^31 and the power of ten below 10^10, so one
\* correctly rounded product or quotient gives the nearest double.
parseFloat(string) ==
  LET input == TrimStart(string)
      negative == StartsWith(input, "-")
      unsigned == IF negative \/ StartsWith(input, "+") THEN Tail(input) ELSE input
      whole == LeadingDigits(unsigned)
      afterWhole == Drop(unsigned, Len(whole))
      fraction == IF StartsWith(afterWhole, ".")
                  THEN LeadingDigits(Tail(afterWhole)) ELSE ""
      afterFraction == IF StartsWith(afterWhole, ".")
                       THEN Drop(afterWhole, 1 + Len(fraction)) ELSE afterWhole
      afterE == IF StartsWith(afterFraction, "e") \/ StartsWith(afterFraction, "E")
                THEN Tail(afterFraction) ELSE ""
      expDigits == LeadingDigits(IF StartsWith(afterE, "-") \/ StartsWith(afterE, "+")
                                 THEN Tail(afterE) ELSE afterE)
      exponent == IF expDigits = "" THEN 0
                  ELSE IF StartsWith(afterE, "-") THEN 0 - ReadDigits(expDigits, 0)
                  ELSE ReadDigits(expDigits, 0)
      power == exponent - Len(fraction)
      mantissa == NumOfInt(ReadDigits(whole \o fraction, 0))
      magnitude == IF power >= 0 THEN NumMul(mantissa, NumOfInt(10 ^ power))
                   ELSE NumDiv(mantissa, NumOfInt(10 ^ (0 - power)))
  IN  IF StartsWith(unsigned, "Infinity") THEN JsInfinity(IF negative THEN -1 ELSE 1)
      ELSE IF whole = "" /\ fraction = "" THEN NaN
      ELSE JsDouble(IF negative THEN NumNeg(magnitude) ELSE magnitude)

\* the numbers a reply holds, by the texts JSON writes them with;
\* Number.prototype.toString gives such a number its text back
NumberTokens == {"0", "5", "-3", "0.01", "3401.188"}
NumberToString(x) == CHOOSE token \in NumberTokens : parseFloat(token) = JsDouble(x)

\* value.toString() of a string, a number or a boolean
ToStringOf(value) ==
  IF value.type = "string" THEN value.value
  ELSE IF value.type = "number" THEN NumberToString(value.double)
  ELSE IF value.truth THEN "true" ELSE "false"

\* !value
Falsy(value) ==
  \/ value.type \in {"null", "undefined"}
  \/ value.type = "string" /\ value.value = ""
  \/ value.type = "number" /\ value.double = NumZero
  \/ value.type = "boolean" /\ ~value.truth

\* value || undefined
OrUndefined(value) == IF Falsy(value) THEN JsUndefined ELSE value

\* String.prototype.toUpperCase, on the characters the replies are made of
UpperChar(c) ==
  IF \E i \in 1..Len(LowerCaseLetters) : CharAt(LowerCaseLetters, i) = c
  THEN CharAt(UpperCaseLetters, CHOOSE i \in 1..Len(LowerCaseLetters) :
                                   CharAt(LowerCaseLetters, i) = c)
  ELSE c

RECURSIVE ToUpperCase(_)
ToUpperCase(str) ==
  IF str = "" THEN "" ELSE UpperChar(Head(str)) \o ToUpperCase(Tail(str))

\* str.replace(/[chars]/g, '')
RECURSIVE RemoveChars(_, _)
RemoveChars(str, chars) ==
  IF str = "" THEN ""
  ELSE (IF Head(str) \in chars THEN "" ELSE Head(str)) \o RemoveChars(Tail(str), chars)

normalizePosition(value) ==
  IF Falsy(value) THEN JsUndefined
  ELSE LET positionStr == ToLowerCase(TrimString(ToStringOf(value)))
       IN  IF \/ StringIncludes(positionStr, "closed")
              \/ positionStr = "all closed"
              \/ positionStr = "close"
           THEN JsString("Closed")
           ELSE IF StringIncludes(positionStr, "open") \/ positionStr = "opened"
           THEN JsString("Open")
           ELSE IF positionStr = "open" THEN JsString("Open")
           ELSE IF positionStr = "closed" THEN JsString("Closed")
           ELSE JsUndefined

\* the last return of normalizeReason: what a reason of no known kind becomes
UnrecognizedReasonKept(reasonStr) == JsString(reasonStr)
UnrecognizedReason(reasonStr) == JsString("Other")

normalizeReason(value) ==
  IF Falsy(value) THEN JsUndefined
  ELSE LET reasonStr == ToLowerCase(TrimString(ToStringOf(value)))
       IN  IF \/ StringIncludes(reasonStr, "tp")
              \/ StringIncludes(reasonStr, "take profit")
              \/ StringIncludes(reasonStr, "takeprofit")
           THEN JsString("TP")
           ELSE IF \/ StringIncludes(reasonStr, "sl")
                   \/ StringIncludes(reasonStr, "stop loss")
                   \/ StringIncludes(reasonStr, "stoploss")
           THEN JsString("SL")
           ELSE IF \/ StringIncludes(reasonStr, "early")
                   \/ StringIncludes(reasonStr, "manual")
                   \/ StringIncludes(reasonStr, "close")
           THEN JsString("Early Close")
           ELSE IF ToUpperCase(reasonStr) \in {"TP", "SL", "Early Close", "Other"}
           THEN JsString(ToUpperCase(CharAt(reasonStr, 1))
                           \o ToLowerCase(Drop(reasonStr, 1)))
           ELSE UnrecognizedReason(reasonStr)

\* the characters parseNumber takes out after the commas
CurrencyAndSpace == {"$", "€", "£", "¥", "+"} \cup WhiteSpace

\* a number in parentheses is written with a minus sign
ParenthesesKept(numStr) == numStr
ParenthesesToMinus(numStr) ==
  IF StringIncludes(numStr, "(") /\ StringIncludes(numStr, ")")
  THEN "-" \o RemoveChars(numStr, {"(", ")"})
  ELSE numStr

parseNumber(value) ==
  IF \/ value.type \in {"null", "undefined"}
     \/ value.type = "string" /\ value.value = ""
  THEN JsUndefined
  ELSE LET parsed == parseFloat(ParenthesesToMinus(
                       RemoveChars(RemoveChars(TrimString(ToStringOf(value)), {","}),
                                   CurrencyAndSpace)))
       IN  IF parsed = NaN THEN JsUndefined ELSE parsed

\* String.prototype.padStart(2, '0')
PadStart2(str) == IF Len(str) < 2 THEN "0" \o str ELSE str

monthMap ==
  [Jan |-> "01", Feb |-> "02", Mar |-> "03", Apr |-> "04", May |-> "05",
   Jun |-> "06", Jul |-> "07", Aug |-> "08", Sep |-> "09", Oct |-> "10",
   Nov |-> "11", Dec |-> "12"]

DaysIn(year, month) ==
  IF month = 2
  THEN (IF year % 4 = 0 /\ (year % 100 # 0 \/ year % 400 = 0) THEN 29 ELSE 28)
  ELSE IF month \in {4, 6, 9, 11} THEN 30 ELSE 31

\* new Date(text).toISOString() of a text of the form YYYY-MM-DDTHH:MM:SSZ:
\* the same instant with its milliseconds, and an invalid date (undefined
\* after the isNaN test) when a field is out of range.  What a text of any
\* other form gives is left to the engine: no date or some date.
SomeDate == JsString("a date of the engine's choice")
DateOutcomes(text) ==
  LET field(from, to) == SubSeq(text, from, to)
      number(from, to) == ReadDigits(field(from, to), 0)
      shaped ==
        /\ Len(text) = 20
        /\ \A i \in {1, 2, 3, 4, 6, 7, 9, 10, 12, 13, 15, 16, 18, 19} :
             CharAt(text, i) \in CharsOf(DigitChars)
        /\ <<CharAt(text, 5), CharAt(text, 8), CharAt(text, 11), CharAt(text, 14),
             CharAt(text, 17), CharAt(text, 20)>> = <<"-", "-", "T", ":", ":", "Z">>
  IN  IF ~shaped THEN {JsUndefined, SomeDate}
      ELSE IF /\ number(6, 7) \in 1..12
              /\ number(9, 10) \in 1..DaysIn(number(1, 4), number(6, 7))
              /\ number(12, 13) \in 0..23
              /\ number(15, 16) \in 0..59
              /\ number(18, 19) \in 0..59
      THEN {JsString(field(1, 19) \o ".000Z")}
      ELSE {JsUndefined}

\* the match of /(\w{3})\s+(\d{1,2}),\s+(\d{1,2}):(\d{2}):(\d{2})\s+(AM|PM)/i
\* that starts at the head of str, Absent when there is none; the runs of
\* spaces and digits can only be taken whole, so the match is the only one
MatchAtHead(str) ==
  LET monthName == Slice(str, 1, 3)
      afterMonth == Drop(str, 3)
      atDay == Drop(afterMonth, Len(LeadingSpaces(afterMonth)))
      day == LeadingDigits(atDay)
      afterDay == Drop(atDay, Len(day))
      afterComma == Tail(afterDay)
      atHour == Drop(afterComma, Len(LeadingSpaces(afterComma)))
      hour == LeadingDigits(atHour)
      afterHour == Drop(atHour, Len(hour))
      minute == Slice(afterHour, 2, 3)
      second == Slice(afterHour, 5, 6)
      afterSecond == Drop(afterHour, 6)
      ampm == Slice(afterSecond, Len(LeadingSpaces(afterSecond)) + 1,
                     Len(LeadingSpaces(afterSecond)) + 2)
  IN  IF /\ Len(str) >= 3 /\ CharsOf(monthName) \subseteq WordChars
         /\ LeadingSpaces(afterMonth) # ""
         /\ Len(day) \in 1..2 /\ StartsWith(afterDay, ",")
         /\ LeadingSpaces(afterComma) # ""
         /\ Len(hour) \in 1..2 /\ StartsWith(afterHour, ":")
         /\ Len(minute) = 2 /\ CharsOf(minute) \subseteq CharsOf(DigitChars)
         /\ Slice(afterHour, 4, 4) = ":"
         /\ Len(second) = 2 /\ CharsOf(second) \subseteq CharsOf(DigitChars)
         /\ LeadingSpaces(afterSecond) # ""
         /\ ToUpperCase(ampm) \in {"AM", "PM"}
      THEN Some([monthName |-> monthName, day |-> day, hour |-> hour,
                 minute |-> minute, second |-> second, ampm |-> ampm])
      ELSE Absent

\* dateStr.match(...): the leftmost match
DateTimeMatch(dateStr) ==
  IF \E i \in 1..Len(dateStr) : MatchAtHead(Drop(dateStr, i - 1)) # Absent
  THEN MatchAtHead(Drop(dateStr, (CHOOSE i \in 1..Len(dateStr) :
                      /\ MatchAtHead(Drop(dateStr, i - 1)) # Absent
                      /\ \A j \in 1..(i - 1) : MatchAtHead(Drop(dateStr, j - 1)) = Absent) - 1))
  ELSE Absent

\* parseDateTime, as the set of the values it can return in the year given
parseDateTime(value, year) ==
  IF Falsy(value) THEN {JsUndefined}
  ELSE LET dateStr == TrimString(ToStringOf(value))
           match == DateTimeMatch(dateStr)
           hour == ReadDigits(match[1].hour, 0)
           pm == ToUpperCase(match[1].ampm) = "PM"
           hour24 == IF pm /\ hour # 12 THEN hour + 12
                     ELSE IF ~pm /\ hour = 12 THEN 0
                     ELSE hour
       IN  IF StringIncludes(dateStr, "T") /\ StringIncludes(dateStr, "-")
           THEN DateOutcomes(dateStr)
           ELSE IF match # Absent /\ match[1].monthName \in DOMAIN monthMap
           THEN DateOutcomes(ToString(year) \o "-" \o monthMap[match[1].monthName]
                               \o "-" \o PadStart2(match[1].day) \o "T"
                               \o PadStart2(ToString(hour24)) \o ":"
                               \o match[1].minute \o ":" \o match[1].second \o "Z")
           ELSE DateOutcomes(dateStr)

\* validateAndCleanExtractedData, as the set of the records it can return in
\* the year given
validateAndCleanExtractedData(data, year) ==
  {[symbol |-> OrUndefined(Property(data, "symbol")),
    type |-> OrUndefined(Property(data, "type")),
    volumeLot |-> parseNumber(Property(data, "volumeLot")),
    openPrice |-> parseNumber(Property(data, "openPrice")),
    closePrice |-> parseNumber(Property(data, "closePrice")),
    tp |-> parseNumber(Property(data, "tp")),
    sl |-> parseNumber(Property(data, "sl")),
    position |-> normalizePosition(Property(data, "position")),
    openTime |-> openTime,
    closeTime |-> closeTime,
    reason |-> normalizeReason(Property(data, "reason")),
    pnlUsd |-> parseNumber(Property(data, "pnlUsd"))] :
     openTime \in parseDateTime(Property(data, "openTime"), year),
     closeTime \in parseDateTime(Property(data, "closeTime"), year)}

\* the CHECK constraints of the position and reason columns of trades; a
\* property that is undefined is left out of the row and the column is NULL
ColumnValue(value) == IF value = JsUndefined THEN JsNull ELSE value
PositionCheck(value) ==
  value = JsNull \/ value \in {JsString("Open"), JsString("Closed")}
ReasonCheck(value) ==
  value = JsNull
    \/ value \in {JsString("TP"), JsString("SL"), JsString("Early Close"),
                  JsString("Other")}

\* replies of the model, parsed: a reply read well, and the replies that
\* differ from it in one field
BaseData ==
  [symbol |-> JsString("XAUUSD"), type |-> JsString("Buy"),
   volumeLot |-> JsString("0.01"), openPrice |-> JsString("3,401.188"),
   closePrice |-> JsString("3,415.02"), tp |-> JsString("3,420"),
   sl |-> JsNull, position |-> JsString("Closed"),
   openTime |-> JsString("Jun 16, 8:50:55 PM"),
   closeTime |-> JsString("Jun 17, 12:05:09 AM"),
   reason |-> JsString("TP"), pnlUsd |-> JsString("(12.50)")]

JsNumbers == {parseFloat(token) : token \in NumberTokens}
NotStrings == {JsNull, JsUndefined, JsBoolean(TRUE), JsBoolean(FALSE)} \cup JsNumbers
Strings(texts) == {JsString(text) : text \in texts}

NumberFields == {"volumeLot", "openPrice", "closePrice", "tp", "sl", "pnlUsd"}
NumberInputs ==
  NotStrings \cup
  Strings({"3,401.188", "(12.50)", "$1,200", "", " ", "abc", "N/A", "-", ".",
           "1e3", "2.5e+2", "5E-1", "-0.5", "+7", "€ 1 000", "£45.10", "¥300",
           "12abc", "(-5)", ")5(", ".5", "5.", "1.2.3", "1,5", "e5", "Infinity",
           " 42 ", "-(3)", "$", "0", "(0.00)"})
PositionInputs ==
  NotStrings \cup
  Strings({"Open", "Closed", "open", " CLOSED ", "All Closed", "close", "opened",
           "Reopened", "Partially closed", "pending", "Closing", "", " ",
           "OPEN/CLOSED", "n/a"})
ReasonInputs ==
  NotStrings \cup
  Strings({"TP", "SL", "Early Close", "Other", "tp", "Take Profit", "stoploss",
           "Stop Loss", "manual", "Closed by user", "other", "OTHER",
           "early close", "Liquidation", "Stop out", "Margin call", "https",
           "result: slippage", "", " ", "n/a"})
DateTimeInputs ==
  {JsNull, JsUndefined} \cup
  Strings({"Jun 16, 8:50:55 PM", "dec 1, 12:00:00 am", "Dec 1, 12:00:00 am",
           "Feb 29, 1:02:03 PM", "June 16, 8:50:55 PM", "2025-06-16T20:50:55Z",
           "2025-13-01T00:00:00Z", "Tomorrow - TBD", "yesterday", ""})
TextInputs == {JsNull, JsUndefined, JsString(""), JsString("EURUSD")}
Years == {2024, 2025}

Variations ==
  (NumberFields \X NumberInputs)
    \cup ({"position"} \X PositionInputs)
    \cup ({"reason"} \X ReasonInputs)
    \cup ({"openTime", "closeTime"} \X DateTimeInputs)
    \cup ({"symbol", "type"} \X TextInputs)

\* a reply with one field changed; a field given undefined is one the reply
\* does not have
Varied(variation) ==
  IF variation[2] = JsUndefined
  THEN [key \in DOMAIN BaseData \ {variation[1]} |-> BaseData[key]]
  ELSE [BaseData EXCEPT ![variation[1]] = variation[2]]

ExtractedData == {Varied(variation) : variation \in Variations}

\* what the cleaning makes of every reply in every year, worked out once
CleanedData ==
  [data \in ExtractedData |-> [year \in Years |-> validateAndCleanExtractedData(data, year)]]

NoExtraction == [pc |-> "idle"]
InitExtract == extraction = NoExtraction

\* JSON.parse has read a reply and validateAndCleanExtractedData cleans it
ValidateAndClean ==
  \E data \in ExtractedData, year \in Years :
    \E cleanData \in CleanedData[data][year] :
      /\ extraction.pc = "idle"
      /\ extraction' = [pc |-> "cleaned", data |-> data, year |-> year,
                        cleanData |-> cleanData]
      /\ UNCHANGED notExtract

\* analyzeScreenshot returns the cleaned record
ReturnParsedData ==
  /\ extraction.pc = "cleaned"
  /\ extraction' = NoExtraction
  /\ UNCHANGED notExtract

NextExtract ==
  \/ ValidateAndClean
  \/ ReturnParsedData

\* ------------------------------------------------------------------------
\* The chat interface (EnhancedChatInterface, with and without the
\* streaming placeholder)
\* ------------------------------------------------------------------------
MaxSends == 2
MaxLoads == 1

\* the version that shows a placeholder while the answer is awaited, and the
\* version that adds the answer when it is there
InterfaceKinds == {"streaming", "plain"}

DisplayMessage(id, role, content) == [id |-> id, role |-> role, content |-> content]

\* what the user types
InputTexts == {"", " ", "hi", " hi "}

\* what the promise of processMessage comes to
ProcessOutcomes ==
  { Fulfilled("reply A"), Fulfilled(GenericReply),
    RejectedWith(<<"429", "quota">>), RejectedWith(<<"fetch", "failed">>) }

\* the rows getChatHistory gives, newest first; it gives [] when the query
\* fails
HistoryOutcomes ==
  { <<>>,
    << [id |-> 0 - 1, message_type |-> "ai", message |-> "stored reply"],
       [id |-> 0 - 2, message_type |-> "user", message |-> "stored message"] >> }

Reverse(q) == [i \in 1..Len(q) |-> q[Len(q) + 1 - i]]

\* history.map(...) of loadChatHistory, reversed
DisplayMessages(history) ==
  Reverse([i \in 1..Len(history) |->
             DisplayMessage(history[i].id, history[i].message_type, history[i].message)])

\* the ids of the messages of the n-th send: Date.now() and Date.now() + 1
UserMessageId(n) == 2 * n - 1
AiMessageId(n) == 2 * n

BusyText == "I'm experiencing high demand right now."
TroubleText == "I'm having trouble right now."
BusyNotice == ToastError("Sydney is temporarily busy. Try again in a moment!")
ClearedNotice == ToastSuccess("Chat cleared and conversation context reset")
RefreshedNotice == ToastSuccess("Chat refreshed with latest conversation history")

\* the first line of handleSendMessage: the send goes on
CanSend(c) == TrimString(c.inputMessage) # "" /\ c.user # Null /\ ~c.isLoading

\* the finally block of handleSendMessage
FinallyKeepsLoading(c) == c
Finally(c) == [c EXCEPT !.isLoading = FALSE]

\* setMessages(prev => prev.map(msg => msg.id === id ? {...msg, content} : msg))
WithContent(messages, id, content) ==
  [i \in 1..Len(messages) |->
     IF messages[i].id = id THEN [messages[i] EXCEPT !.content = content]
     ELSE messages[i]]

\* the answer is shown: in the placeholder, or as a new message
AnswerShown(c, n, content) ==
  IF c.kind = "streaming"
  THEN [c EXCEPT !.messages = WithContent(@, AiMessageId(n), content)]
  ELSE [c EXCEPT !.messages = Append(@, DisplayMessage(AiMessageId(n), "ai", content))]

InitInterfaceOf(kind, user) ==
  chat = [kind |-> kind, user |-> user, messages |-> <<>>, inputMessage |-> "",
          isLoading |-> FALSE, loadingHistory |-> FALSE,
          connectionStatus |-> "connected", streamingMessageId |-> Absent,
          sends |-> <<>>, sent |-> 0, loads |-> <<>>, notice |-> Absent]

InitInterface == InitInterfaceOf("streaming", "u1")

\* either version, with a user signed in or not
InitInterfaceAny ==
  \E kind \in InterfaceKinds, user \in {Null, "u1"} : InitInterfaceOf(kind, user)

\* onChange of the input, which is disabled while loading and when offline
ChatInputChange ==
  \E value \in InputTexts :
    /\ ~chat.isLoading /\ chat.connectionStatus # "offline"
    /\ chat' = [chat EXCEPT !.inputMessage = value]
    /\ UNCHANGED notInterface

\* handleSendMessage up to await processMessage; a call that does not pass
\* its first line changes nothing
HandleSendMessage ==
  /\ CanSend(chat)
  /\ chat.sent < MaxSends
  /\ chat' = [chat EXCEPT
       !.messages =
          @ \o <<DisplayMessage(UserMessageId(chat.sent + 1), "user",
                                TrimString(chat.inputMessage))>>
            \o (IF chat.kind = "streaming"
                THEN <<DisplayMessage(AiMessageId(chat.sent + 1), "ai", "")>>
                ELSE <<>>),
       !.inputMessage = "",
       !.isLoading = TRUE,
       !.streamingMessageId =
          IF chat.kind = "streaming" THEN Some(AiMessageId(chat.sent + 1)) ELSE @,
       !.sends = Append(@, [pc |-> "processing", n |-> chat.sent + 1,
                            currentInput |-> TrimString(chat.inputMessage)]),
       !.sent = @ + 1]
  /\ UNCHANGED notInterface

\* processMessage settles: the answer is shown and saveChatMessage is
\* called, or the catch block shows the error text and the handler ends
ProcessMessageSettles ==
  \E i \in 1..Len(chat.sends), outcome \in ProcessOutcomes :
    /\ chat.sends[i].pc = "processing"
    /\ chat' =
         IF outcome.status = "fulfilled"
         THEN [AnswerShown(chat, chat.sends[i].n, outcome.value) EXCEPT
                 !.sends[i].pc = "saving"]
         ELSE LET busy == Includes(outcome.reason, "quota")
                            \/ Includes(outcome.reason, "429")
              IN  Finally(
                    [AnswerShown(chat, chat.sends[i].n,
                              IF busy THEN BusyText ELSE TroubleText) EXCEPT
                       !.connectionStatus = IF busy THEN "limited" ELSE "offline",
                       !.notice = Some(BusyNotice),
                       !.sends = Without(@, i)])
    /\ UNCHANGED notInterface

\* saveChatMessage settles and the handler ends
SaveSettles ==
  \E i \in 1..Len(chat.sends), saved \in BOOLEAN :
    /\ chat.sends[i].pc = "saving"
    /\ chat' = Finally([chat EXCEPT
                          !.connectionStatus = IF saved THEN "connected" ELSE "limited",
                          !.sends = Without(@, i)])
    /\ UNCHANGED notInterface

\* handleTypewriterComplete of the message that is streaming
TypewriterComplete ==
  /\ chat.streamingMessageId # Absent
  /\ chat' = [chat EXCEPT !.streamingMessageId = Absent]
  /\ UNCHANGED notInterface

\* clearChat: the list is emptied; the streaming version also clears the
\* conversation context of the user in the service
ClearChat ==
  /\ IF chat.kind = "streaming"
     THEN /\ chat' = [chat EXCEPT !.messages = <<>>, !.streamingMessageId = Absent,
                                  !.notice = Some(ClearedNotice)]
          /\ IF chat.user # Null
             THEN /\ conversationContexts' =
                       clearConversationContext(conversationContexts, chat.user)
                  /\ cleared' = [cleared EXCEPT ![chat.user] = "cleared"]
             ELSE UNCHANGED <<conversationContexts, cleared>>
     ELSE /\ chat' = [chat EXCEPT !.messages = <<>>]
          /\ UNCHANGED <<conversationContexts, cleared>>
  /\ UNCHANGED <<chatMessages, turns, nextMessage, interfaces, avars, mvars, qvars,
                 rvars, svars, fvars, jvars, uvars, evars>>

\* loadChatHistory is called when the chat is opened with an empty list
LoadChatHistory ==
  /\ chat.messages = <<>>
  /\ chat.user # Null
  /\ Len(chat.loads) < MaxLoads
  /\ chat' = [chat EXCEPT !.loadingHistory = TRUE, !.loads = Append(@, "open")]
  /\ UNCHANGED notInterface

\* refreshChat up to await loadChatHistory; its button is disabled while a
\* history is loading
RefreshChat ==
  /\ chat.kind = "streaming"
  /\ chat.user # Null
  /\ ~chat.loadingHistory
  /\ Len(chat.loads) < MaxLoads
  /\ chat' = [chat EXCEPT !.loadingHistory = TRUE, !.loads = Append(@, "refresh")]
  /\ conversationContexts' = clearConversationContext(conversationContexts, chat.user)
  /\ cleared' = [cleared EXCEPT ![chat.user] = "cleared"]
  /\ UNCHANGED <<chatMessages, turns, nextMessage, interfaces, avars, mvars, qvars,
                 rvars, svars, fvars, jvars, uvars, evars>>

\* getChatHistory settles: the list is replaced by the history
HistorySettles ==
  \E i \in 1..Len(chat.loads), history \in HistoryOutcomes :
    /\ chat' = [chat EXCEPT
         !.messages = DisplayMessages(history),
         !.connectionStatus = "connected",
         !.loadingHistory = FALSE,
         !.loads = Without(@, i),
         !.notice = IF chat.loads[i] = "refresh" THEN Some(RefreshedNotice) ELSE @]
    /\ UNCHANGED notInterface

NextInterface ==
  \/ ChatInputChange
  \/ HandleSendMessage
  \/ ProcessMessageSettles
  \/ SaveSettles
  \/ TypewriterComplete
  \/ ClearChat
  \/ LoadChatHistory
  \/ RefreshChat
  \/ HistorySettles

\* ------------------------------------------------------------------------
\* Specifications
\* ------------------------------------------------------------------------
Init ==
  /\ InitAnalytics /\ InitMarket /\ InitQuota /\ InitRetry /\ InitChat /\ InitStore
  /\ InitFunction /\ InitExport /\ InitForms /\ InitExtract /\ InitInterface

\* the analytics page
Spec == Init /\ [][NextAnalytics]_vars

\* the market data services; every request is answered in the end and a
\* settled Promise.all runs its continuation
SpecMarket ==
  /\ Init /\ [][NextMarket]_vars
  /\ WF_vars(CryptoSettles) /\ WF_vars(GoldPrimarySettles)
  /\ WF_vars(GoldFallbackSettles) /\ WF_vars(FearGreedSettles)
  /\ WF_vars(NewsSettles) /\ WF_vars(MarketDataSettles)

\* the assistant service
SpecQuota == Init /\ [][NextQuota]_vars
\* the text turns, on a store that holds earlier conversations
InitStored ==
  /\ InitAnalytics /\ InitMarket /\ InitQuota /\ InitRetry /\ InitChatStored /\ InitStore
  /\ InitFunction /\ InitExport /\ InitForms /\ InitExtract /\ InitInterface

SpecChat == InitStored /\ [][NextChat]_vars

\* the text turns of two chat interfaces
InitOverlap ==
  /\ InitAnalytics /\ InitMarket /\ InitQuota /\ InitRetry /\ InitChatOverlap /\ InitStore
  /\ InitFunction /\ InitExport /\ InitForms /\ InitExtract /\ InitInterface

\* both interfaces are used by the same user, who does not clear the chat
ProcessMessageOfOneUser ==
  ProcessMessage /\ \A k \in Slots : turns'[k].userId = NoTurn.userId

NextOverlap ==
  \/ ProcessMessageOfOneUser
  \/ ContextLoads
  \/ SessionsQuerySettles
  \/ TradesQuerySettles
  \/ GenerateSettles
  \/ TurnDelayElapsed
  \/ SaveChatMessage

SpecOverlap == InitOverlap /\ [][NextOverlap]_vars

\* tradingService on the store
SpecStore == Init /\ [][NextStore]_vars

\* every way to the store: tradingService, the chat history, the ai-chat function
SpecAccess == Init /\ [][NextAccess]_vars

\* the ai-chat function serving one request after another
SpecFunction == Init /\ [][NextFunction]_vars

\* exports and imports of sessions
SpecExport == Init /\ [][NextExport]_vars

\* the trade form and the trades list of a session of either type
InitAnyForm ==
  /\ InitAnalytics /\ InitMarket /\ InitQuota /\ InitRetry /\ InitChat /\ InitStore
  /\ InitFunction /\ InitExport /\ InitFormsAny /\ InitExtract /\ InitInterface

SpecForms == InitAnyForm /\ [][NextForms]_vars

\* the chat interface, in either version
InitAnyInterface ==
  /\ InitAnalytics /\ InitMarket /\ InitQuota /\ InitRetry /\ InitChat /\ InitStore
  /\ InitFunction /\ InitExport /\ InitForms /\ InitExtract /\ InitInterfaceAny

SpecInterface == InitAnyInterface /\ [][NextInterface]_vars

\* calculateUserAnalytics on trades with amounts in tenths
SpecTenths == Init /\ [][NextTenths]_vars

\* chat turns of two users and screenshot analyses on the one service
\* instance, while time passes
InvokeScreenshot ==
  /\ Invoke
  /\ calls'["b"] = calls["b"]
  /\ calls'["a"].op \in {"analyzeScreenshot", "analyzeCryptoScreenshot"}

\* time passes, up to the end of one cooldown window
TickInWindow == Tick /\ now' <= CooldownHours

NextShared ==
  \/ ProcessMessage
  \/ ContextLoads
  \/ SessionsQuerySettles
  \/ TradesQuerySettles
  \/ GenerateSettles
  \/ TurnDelayElapsed
  \/ SaveChatMessage
  \/ InvokeScreenshot
  \/ TickInWindow

SpecShared == Init /\ [][NextShared]_vars

\* the cleaning of one extracted record after another
SpecExtract == Init /\ [][NextExtract]_vars

SpecRetry ==
  /\ Init /\ [][NextRetry]_vars
  /\ WF_vars(OperationSettles) /\ WF_vars(DelayElapsed)


\* ------------------------------------------------------------------------
\* Properties of the analytics engine
\* ------------------------------------------------------------------------
Computed == analytics # Absent /\ allTrades # <<>>
Result == analytics[1]
N == Len(allTrades)
PL(i) == allTrades[i].profit_loss
PLs == [i \in 1..N |-> PL(i)]
Ints(s) == [i \in 1..Len(s) |-> NumOfInt(s[i])]

\* the greatest number of a finite non-empty set of numbers
NumSetMax(S) == CHOOSE x \in S : \A y \in S : ~NumGT(y, x)
IntSetMax(S) == CHOOSE x \in S : \A y \in S : y <= x

\* cumulative profit_loss of the first k trades, the largest cumulative
\* value among the prefixes up to k (that of no trade is 0), and their gap
RECURSIVE RunningTotalAt(_)
RunningTotalAt(k) == IF k = 0 THEN NumZero ELSE NumAdd(RunningTotalAt(k - 1), PL(k))
PeakAt(k) == NumSetMax({RunningTotalAt(j) : j \in 0..k})
DrawdownAt(k) == NumSub(PeakAt(k), RunningTotalAt(k))

\* C1: maxDrawdown.amount is the maximum over all prefixes of the trades, in
\* the order given, of peak - runningTotal, where peak is the largest
\* runningTotal so far and at least 0; maxDrawdown.percentage is
\* amount / final peak x 100, or 0 when the final peak is 0; for profit_loss
\* [100, -150, 20] the amount is 150 and the percentage is 150.
C1_MaxDrawdown ==
  Computed =>
    /\ Result.maxDrawdown.amount = NumSetMax({DrawdownAt(k) : k \in 1..N})
    /\ Result.maxDrawdown.percentage =
         (IF NumGT(PeakAt(N), NumZero)
          THEN NumMul(NumDiv(NumSetMax({DrawdownAt(k) : k \in 1..N}), PeakAt(N)), Hundred)
          ELSE NumZero)
    /\ \A k \in 1..N :
         /\ DrawdownWalk(DrawdownInit, SubSeq(allTrades, 1, k)).runningTotal
              = RunningTotalAt(k)
         /\ DrawdownWalk(DrawdownInit, SubSeq(allTrades, 1, k)).peak = PeakAt(k)
         /\ ~NumLT(DrawdownWalk(DrawdownInit, SubSeq(allTrades, 1, k)).peak,
                   DrawdownWalk(DrawdownInit, SubSeq(allTrades, 1, k - 1)).peak)
    /\ PLs = Ints(<<100, -150, 20>>) =>
         /\ Result.maxDrawdown.amount = NumOfInt(150)
         /\ Result.maxDrawdown.percentage = NumOfInt(150)

C1_Witness ==
  /\ Computed
  /\ PLs = Ints(<<100, -150, 20>>)
  /\ Result.maxDrawdown.amount = NumOfInt(150)
  /\ Result.maxDrawdown.percentage = NumOfInt(150)

\* the length of the longest run of consecutive trades that all satisfy P
LongestRun(P(_)) ==
  IntSetMax({0} \cup
    {len \in 1..N : \E i \in 1..(N - len + 1) :
                      \A k \in i..(i + len - 1) : P(allTrades[k])})
NonWin(t) == ~NumGT(t.profit_loss, NumZero)

\* C2: bestStreak is the length of the longest run of consecutive trades with
\* profit_loss > 0, worstStreak the length of the longest run of consecutive
\* trades with profit_loss <= 0; [win, win, loss, win] gives 2 and 1.
C2_Streaks ==
  Computed =>
    /\ Result.streaks.bestStreak = LongestRun(IsWin)
    /\ Result.streaks.worstStreak = LongestRun(NonWin)
    /\ PLs = Ints(<<100, 50, -50, 30>>) =>
         Result.streaks = [bestStreak |-> 2, worstStreak |-> 1]

C2_Witness ==
  /\ Computed
  /\ PLs = Ints(<<100, 50, -50, 30>>)
  /\ Result.streaks = [bestStreak |-> 2, worstStreak |-> 1]

\* the sum, in the order of the trades, of the profit_loss of sign sgn among
\* the first k trades
RECURSIVE SignedTotal(_, _)
SignedTotal(k, sgn) ==
  IF k = 0 THEN NumZero
  ELSE IF NumSgn(PL(k)) = sgn THEN NumAdd(SignedTotal(k - 1, sgn), PL(k))
  ELSE SignedTotal(k - 1, sgn)

WinTotal == SignedTotal(N, 1)
LossTotal == NumAbs(SignedTotal(N, -1))

\* C3: profitFactor is the total of the positive profit_loss divided by the
\* absolute value of the total of the negative profit_loss when that loss
\* total is > 0, 999 when the loss total is 0 and the win total is > 0, and 0
\* when both are 0; [+100, +50] gives 999 and [-100] gives 0.
C3_ProfitFactor ==
  Computed =>
    /\ NumGT(LossTotal, NumZero) => Result.profitFactor = NumDiv(WinTotal, LossTotal)
    /\ LossTotal = NumZero /\ NumGT(WinTotal, NumZero) =>
         Result.profitFactor = NumOfInt(999)
    /\ LossTotal = NumZero /\ WinTotal = NumZero => Result.profitFactor = NumZero
    /\ PLs = Ints(<<100, 50>>) => Result.profitFactor = NumOfInt(999)
    /\ PLs = Ints(<<-100>>) => Result.profitFactor = NumZero

C3_Witness ==
  /\ Computed
  /\ PLs = Ints(<<100, 50>>)
  /\ Result.profitFactor = NumOfInt(999)

\* C4: for a non-empty trade list successRate is the number of trades with
\* profit_loss > 0 divided by the number of all trades, times 100; a trade
\* with profit_loss = 0 is in the denominator only; [100, -50, 0, 30] gives 50.
C4_SuccessRate ==
  Computed =>
    /\ Result.successRate =
         NumMul(NumDiv(NumOfInt(Cardinality({i \in 1..N : NumSgn(PL(i)) = 1})),
                       NumOfInt(N)),
                Hundred)
    /\ PLs = Ints(<<100, -50, 0, 30>>) => Result.successRate = NumOfInt(50)

C4_Witness ==
  /\ Computed
  /\ PLs = Ints(<<100, -50, 0, 30>>)
  /\ Result.successRate = NumOfInt(50)

\* a stop-loss or an open price is set when the field holds a price, which
\* is never 0; the risk of trade i is then the distance from entry to stop
PriceSet(o) == o # Absent /\ NumSgn(o[1]) # 0
RiskAt(i) ==
  IF allTrades[i].entry_side = "Long"
  THEN NumSub(allTrades[i].open_price[1], allTrades[i].sl[1])
  ELSE NumSub(allTrades[i].sl[1], allTrades[i].open_price[1])
QualifiesR(i) ==
  /\ PriceSet(allTrades[i].sl)
  /\ PriceSet(allTrades[i].open_price)
  /\ NumSgn(RiskAt(i)) = 1

RECURSIVE RTotal(_)
RTotal(k) ==
  IF k = 0 THEN NumZero
  ELSE IF QualifiesR(k) THEN NumAdd(RTotal(k - 1), NumDiv(PL(k), RiskAt(k)))
  ELSE RTotal(k - 1)

SpecExampleTrade(i) ==
  /\ allTrades[i].entry_side = "Long"
  /\ allTrades[i].open_price = Some(Dec(11000, 10000))
  /\ allTrades[i].sl = Some(Dec(11010, 10000))

\* C5: averageRMultiple is the arithmetic mean of profit_loss / risk over
\* exactly the trades that have a stop-loss and an open price set and a risk
\* (open_price - sl for Long, sl - open_price for Short) > 0; any other trade
\* is left out of sum and count, and the result is 0 when no trade
\* qualifies; a Long trade with open_price 1.1000 and sl 1.1010 is left out.
C5_AverageRMultiple ==
  Computed =>
    /\ Result.averageRMultiple =
         (IF {i \in 1..N : QualifiesR(i)} = {} THEN NumZero
          ELSE NumDiv(RTotal(N), NumOfInt(Cardinality({i \in 1..N : QualifiesR(i)}))))
    /\ \A i \in 1..N : SpecExampleTrade(i) => ~QualifiesR(i)
    /\ (\A i \in 1..N : SpecExampleTrade(i)) => Result.averageRMultiple = NumZero

C5_Witness ==
  /\ Computed
  /\ N = 2
  /\ SpecExampleTrade(1)
  /\ PL(1) = NumOfInt(-20)
  /\ QualifiesR(2)
  /\ Result.averageRMultiple = NumOfInt(1)

\* C6: riskLevel is 'High' if maxDrawdown.percentage > 20 or
\* averageRMultiple < -1, otherwise 'Moderate' if maxDrawdown.percentage > 10
\* or averageRMultiple < 0, otherwise 'Low'; the comparisons are strict and
\* the High test comes first.
C6_RiskLevel ==
  Computed =>
    /\ Result.riskLevel = "High" <=>
         \/ NumCmp(Result.maxDrawdown.percentage, NumOfInt(20)) = 1
         \/ NumCmp(Result.averageRMultiple, NumOfInt(-1)) = -1
    /\ Result.riskLevel = "Moderate" <=>
         /\ ~(\/ NumCmp(Result.maxDrawdown.percentage, NumOfInt(20)) = 1
              \/ NumCmp(Result.averageRMultiple, NumOfInt(-1)) = -1)
         /\ \/ NumCmp(Result.maxDrawdown.percentage, NumOfInt(10)) = 1
            \/ NumCmp(Result.averageRMultiple, NumZero) = -1
    /\ Result.riskLevel \in {"High", "Moderate", "Low"}

C6_Witness ==
  /\ Computed
  /\ Result.maxDrawdown.percentage = NumOfInt(20)
  /\ Result.averageRMultiple = NumZero
  /\ Result.riskLevel = "Moderate"

\* the sum of the sessions' current_capital, in the order of the sessions
RECURSIVE CapitalUpTo(_)
CapitalUpTo(k) ==
  IF k = 0 THEN NumZero ELSE NumAdd(CapitalUpTo(k - 1), sessions[k].current_capital)

\* C7: for an empty trade list and any list of sessions the analytics are
\* computed (nothing is thrown) and are the neutral result: every numeric
\* metric is 0, bestTime is 'N/A', riskLevel is 'Low', and activeCapital is
\* the sum of the sessions' current_capital.
C7_EmptyTradeList ==
  (~loading /\ ~loadError /\ allTrades = <<>>) =>
    /\ analytics # Absent
    /\ Result.successRate = NumZero
    /\ Result.profitFactor = NumZero
    /\ Result.sharpeRatio = NumZero
    /\ Result.averageRMultiple = NumZero
    /\ Result.overallPerformance = NumZero
    /\ Result.maxDrawdown = [percentage |-> NumZero, amount |-> NumZero]
    /\ Result.tradeDistribution =
         [longTrades |-> 0, shortTrades |-> 0,
          longPercentage |-> NumZero, shortPercentage |-> NumZero]
    /\ Result.timeAnalysis = [avgHoldTime |-> NumZero, bestTime |-> "N/A"]
    /\ Result.riskMetrics = [avgRiskPerTrade |-> NumZero, maxRisk |-> NumZero]
    /\ Result.streaks = [bestStreak |-> 0, worstStreak |-> 0]
    /\ Result.riskLevel = "Low"
    /\ Result.activeCapital = CapitalUpTo(Len(sessions))

C7_Witness ==
  /\ ~loading /\ ~loadError
  /\ allTrades = <<>>
  /\ sessions = <<Session(1000), Session(2500)>>
  /\ analytics # Absent
  /\ Result.activeCapital = NumOfInt(3500)
  /\ Result.riskLevel = "Low"

Roi(i) == allTrades[i].roi
AllSameRoi == \A i \in 1..N : Roi(i) = Roi(1)

RECURSIVE RoiTotal(_)
RoiTotal(k) == IF k = 0 THEN NumZero ELSE NumAdd(RoiTotal(k - 1), Roi(k))
RoiMean == NumDiv(RoiTotal(N), NumOfInt(N))

RECURSIVE SquaresTotal(_)
SquaresTotal(k) ==
  IF k = 0 THEN NumZero
  ELSE NumAdd(SquaresTotal(k - 1),
              NumMul(NumSub(Roi(k), RoiMean), NumSub(Roi(k), RoiMean)))
RoiStdDev == NumSqrt(NumDiv(SquaresTotal(N), NumOfInt(N)))

\* C8: sharpeRatio is the mean of the stored roi values divided by their
\* population standard deviation (divisor N), with no risk-free rate, and is
\* 0 whenever the standard deviation is 0, in particular for a single trade
\* or when all trades have the same roi.
C8_SharpeRatio ==
  Computed =>
    /\ AllSameRoi => Result.sharpeRatio = NumZero
    /\ ~AllSameRoi => Result.sharpeRatio = NumDiv(RoiMean, RoiStdDev)

\* ------------------------------------------------------------------------
\* Properties of the market data services
\* ------------------------------------------------------------------------
\* a body without the payload the provider is asked for
EmptyBodies ==
  { [bitcoin |-> Absent, ethereum |-> Absent],
    [quotes |-> Absent],
    [price |-> Absent, change |-> Absent, change_percent |-> Absent],
    [data |-> Absent],
    [status |-> "error", results |-> Absent] }

\* a provider fetch fails by a network error, a non-success status or a
\* malformed body
FetchFailed(resp) ==
  \/ resp.kind \in {"networkError", "httpError", "badJson"}
  \/ resp.kind = "json" /\ resp.body \in EmptyBodies

EveryFetchFailed ==
  \A p \in Providers :
    /\ fetches[p].responses # <<>>
    /\ \A i \in 1..Len(fetches[p].responses) : FetchFailed(fetches[p].responses[i])

\* the static fallback composite
StaticFallback ==
  [crypto |->
     [btc |-> [symbol |-> "BTC/USD", price |-> Some(Dec(4325000, 100)),
               change24h |-> Dec(125000, 100), changePercent24h |-> Dec(298, 100)],
      eth |-> [symbol |-> "ETH/USD", price |-> Some(Dec(265000, 100)),
               change24h |-> Dec(-4500, 100), changePercent24h |-> Dec(-167, 100)]],
   gold |-> [price |-> Dec(205000, 100), change24h |-> Dec(1550, 100),
             changePercent24h |-> Dec(76, 100)],
   fearGreed |-> [value |-> 65, classification |-> Some("Greed"), timestamp |-> Some("now")],
   news |-> NewsFallback(variant)]

\* C9: getAllMarketData always resolves and never rejects, whatever the
\* provider fetches come to (network error, non-success status, malformed
\* body, or data); when every provider fetch fails it resolves to the static
\* fallback composite.
C9_AlwaysResolves ==
  /\ [](marketData.status # "rejected")
  /\ []((marketData.status = "fulfilled" /\ EveryFetchFailed)
          => marketData.value = StaticFallback)
  /\ (marketData.status = "pending") ~> (marketData.status = "fulfilled")

C9_Witness ==
  /\ marketData.status = "fulfilled"
  /\ variant = "client"
  /\ EveryFetchFailed
  /\ fetches["crypto"].responses = <<BadJson>>
  /\ fetches["gold"].responses = <<HttpError, NetworkError>>
  /\ fetches["fearGreed"].responses = <<Json([data |-> Absent])>>
  /\ marketData.value = StaticFallback
  /\ Len(marketData.value.news) = 8

\* ------------------------------------------------------------------------
\* Properties of the assistant service
\* ------------------------------------------------------------------------
CoolingDown ==
  quotaExceeded /\ quotaResetTime # Absent /\ now - quotaResetTime[1] < 24
CooldownOver ==
  quotaExceeded /\ quotaResetTime # Absent /\ now - quotaResetTime[1] >= 24

\* the step is a call of an operation by c, is the quota check of
\* retryWithBackoff in c's call, is a reply with a quota error to c's call
Invoked(c) == calls[c].pc \in {"idle", "done"} /\ calls'[c] # calls[c]
RetryEntered(c) == calls[c].pc = "preparing" /\ calls'[c].pc # "preparing"
QuotaErrorSeen(c) == calls[c].pc = "attempting" /\ calls'[c].outcome = "limit"

QuotaCooldownStep ==
  \A c \in Callers :
    /\ QuotaErrorSeen(c) => quotaExceeded' /\ quotaResetTime' = Some(now)
    /\ (Invoked(c) /\ CoolingDown) =>
         /\ calls'[c].pc = "done" /\ calls'[c].outcome = "limit"
         /\ calls'[c].requests = 0
         /\ quotaExceeded' /\ quotaResetTime' = quotaResetTime
    /\ (Invoked(c) /\ CooldownOver) =>
         /\ ~quotaExceeded' /\ quotaResetTime' = Absent
         /\ calls'[c].pc = "preparing"
    /\ (RetryEntered(c) /\ CooldownOver) =>
         /\ ~quotaExceeded' /\ quotaResetTime' = Absent
         /\ calls'[c].pc = "attempting"
    /\ calls'[c].refused =>
         calls'[c].requests = 0 /\ calls'[c].pc = "done" /\ calls'[c].outcome = "limit"

\* C10: a quota error seen by any call sets the cooldown flag and its time;
\* a call of processMessage, analyzeScreenshot or analyzeCryptoScreenshot made
\* while the flag is set and less than 24 hours have passed since it was set
\* makes no request to the model and ends in the limit condition; the first
\* check made 24 hours or more after the flag was set clears it and lets the
\* call go on.
C10_QuotaCooldown == [][QuotaCooldownStep]_vars

C10_Witness ==
  \E c \in Callers :
    /\ CoolingDown
    /\ now - quotaResetTime[1] = 12
    /\ calls[c].refused
    /\ calls[c].requests = 0
    /\ calls[c].outcome = "limit"

\* ------------------------------------------------------------------------
\* retryWithBackoff
\* ------------------------------------------------------------------------
QuotaFailure(reply) == reply.kind = "error" /\ IsQuotaMessage(reply.message)
OtherFailure(reply) == reply.kind = "error" /\ ~IsQuotaMessage(reply.message)
Invocations == Len(retry.replies)
\* the exponential backoff before attempt k + 1: the base delay doubled k - 1
\* times, plus less than a second of jitter
IsBackoffDelay(d, k) ==
  \E base \in {1000, 2000} : d >= base * Pow2(k - 1) /\ d < base * Pow2(k - 1) + 1000

\* C11: retryWithBackoff invokes the operation at most maxRetries times, two
\* by default; it returns the first successful result; a rate/quota failure
\* ends the loop at once, with no further attempt; any other failure is
\* followed by an exponential backoff delay and another attempt until the
\* cap is reached, and then the last error is rethrown.
C11_RetryWithBackoff ==
  /\ Invocations <= retry.maxRetries
  /\ Invocations <= MaxRetries
  /\ \A i \in 1..Invocations :
       /\ retry.replies[i].kind = "completion" =>
            /\ i = Invocations
            /\ retry.pc = "returned"
            /\ retry.returned = Some(retry.replies[i])
       /\ QuotaFailure(retry.replies[i]) =>
            /\ i = Invocations
            /\ retry.pc = "threw"
       /\ OtherFailure(retry.replies[i]) /\ i < retry.maxRetries =>
            /\ Len(retry.delays) >= i
            /\ IsBackoffDelay(retry.delays[i], i)
            /\ i = Invocations => retry.pc \in {"waiting", "attempting"}
       /\ OtherFailure(retry.replies[i]) /\ i = retry.maxRetries =>
            /\ retry.pc = "threw"
            /\ retry.thrown = Some(retry.replies[i].message)
  /\ retry.pc = "returned" =>
       Invocations >= 1 /\ retry.replies[Invocations].kind = "completion"

\* the claim of C11 for the second class alone
RetryOfSecondAsClaimed == retry.service = "second" => C11_RetryWithBackoff
\* a call of retryWithBackoff that is under way comes to an end
RetryTerminates ==
  retry.pc \in {"attempting", "waiting"} ~> retry.pc \in {"returned", "threw"}

\* ------------------------------------------------------------------------
\* processMessage
\* ------------------------------------------------------------------------
LimitReplies == {DailyLimitReply, ChatLimitReply}
TurnDone(k) == turns[k].pc = "done"
\* the turn ended on an error thrown inside the try block
TurnThrew(k) == turns[k].threw # Absent
\* how a finished turn answers, by what happened in it: refused at the entry
\* check, a completion received, or an error thrown
AnswersByOutcome(k) ==
  /\ turns[k].result.status = "fulfilled"
  /\ turns[k].refused \/ turns[k].completion # Absent \/ TurnThrew(k)
  /\ turns[k].refused => turns[k].result.value = DailyLimitReply
  /\ turns[k].completion # Absent => turns[k].result.value = turns[k].completion[1]
  /\ TurnThrew(k) /\ IsQuotaMessage(turns[k].threw[1]) =>
       turns[k].result.value \in LimitReplies
  /\ TurnThrew(k) /\ ~IsQuotaMessage(turns[k].threw[1]) =>
       turns[k].result.value = GenericReply

\* C12 as stated: processMessage never rejects; it resolves to the completion
\* text when the call succeeds, to a limit string on a rate/quota failure or
\* when the cooldown flag is set, and to the generic failure string for every
\* other failure, a failed store query of the prompt included.
C12_AsStated ==
  \A k \in Slots :
    /\ turns[k].result.status # "rejected"
    /\ TurnDone(k) => AnswersByOutcome(k)
    /\ TurnDone(k) /\ ~turns[k].refused /\ turns[k].storeFailed =>
         turns[k].result.value = GenericReply

\* C12, amended: processMessage never rejects; it resolves to the completion
\* text when the model call succeeds, to a limit string on a rate/quota
\* failure or when the cooldown flag is set, and to the generic failure
\* string for every other error thrown inside it, a store query that throws
\* included; a store query that only reports an error does not end the turn:
\* the model is still called and its outcome decides the answer.
C12_ProcessMessage ==
  \A k \in Slots :
    /\ turns[k].result.status # "rejected"
    /\ TurnDone(k) => AnswersByOutcome(k)
    /\ TurnDone(k) /\ turns[k].storeFailed /\ ~TurnThrew(k) /\ ~turns[k].refused =>
         /\ turns[k].requests >= 1
         /\ turns[k].result.value \in ReplyTexts
    /\ TurnDone(k) /\ TurnThrew(k) /\ turns[k].requests = 0
         /\ turns[k].threw[1] = StoreThrew.message =>
         turns[k].result.value = GenericReply

\* a turn in which the sessions query reported an error and the model was
\* still called and answered
C12_Witness ==
  \E k \in Slots :
    /\ TurnDone(k)
    /\ turns[k].storeFailed
    /\ turns[k].sessions = Absent
    /\ turns[k].completion # Absent
    /\ turns[k].result = Fulfilled(turns[k].completion[1])

\* ------------------------------------------------------------------------
\* The conversation context
\* ------------------------------------------------------------------------
Ctx(u) == IF conversationContexts[u] = Absent THEN <<>> ELSE conversationContexts[u][1]
CtxNext(u) == IF conversationContexts'[u] = Absent THEN <<>> ELSE conversationContexts'[u][1]
EntryOfRow(row) ==
  [role |-> IF row.message_type = "user" THEN "user" ELSE "assistant",
   content |-> row.message, timestamp |-> row.created_at]
\* d is c with one entry added at its end, less the oldest entry of c when c
\* was full
AddedTo(c, d) ==
  /\ Len(d) >= 1
  /\ Len(c) <= 20
  /\ IF Len(c) < 20
     THEN Len(d) = Len(c) + 1 /\ \A i \in 1..Len(c) : d[i] = c[i]
     ELSE Len(d) = 20 /\ \A i \in 1..19 : d[i] = c[i + 1]
\* the runs of at most 20 consecutive stored messages of u, oldest first
StoredRuns(u) ==
  { [i \in 1..n |-> EntryOfRow(chatMessages[u][off + i])] :
      <<off, n>> \in { p \in (0..Len(chatMessages[u])) \X (0..20) :
                         p[1] + p[2] <= Len(chatMessages[u]) } }
\* one step, seen from the context of u: nothing, a clear, an entry added, or
\* a rehydration with the new message added
ContextStep(u) ==
  \/ conversationContexts'[u] = conversationContexts[u]
  \/ conversationContexts'[u] = Absent
  \/ AddedTo(Ctx(u), CtxNext(u))
  \/ /\ conversationContexts[u] = Absent
     /\ \E base \in StoredRuns(u) : AddedTo(base, CtxNext(u))

\* C13: every context holds at most 20 entries; each step leaves a context
\* alone, clears it, or adds one entry at its end (after the stored messages
\* on a rehydration), dropping exactly the oldest entry when it was full; a
\* step that changes one user's context leaves every other user's alone.
C13_ContextWindow ==
  [][ /\ \A u \in Users : Len(CtxNext(u)) <= 20
      /\ \A u \in Users : ContextStep(u)
      /\ \A u, v \in Users :
           u # v /\ conversationContexts'[u] # conversationContexts[u] =>
             conversationContexts'[v] = conversationContexts[v] ]_vars

\* a full context whose oldest stored message has been dropped for a new one
C13_Witness ==
  \E u \in Users :
    /\ Len(Ctx(u)) = 20
    /\ Len(chatMessages[u]) >= 20
    /\ Ctx(u)[1] = EntryOfRow(chatMessages[u][2])
    /\ Ctx(u)[20].role = "user"
    /\ Ctx(u)[20].content = MessageText(1)

\* ------------------------------------------------------------------------
\* Sessions and their trades
\* ------------------------------------------------------------------------
SessionsWithId(id) == {ses \in tradingSessionsTable : ses.id = id}
TradesOfSession(table, id) == {t \in table : t.session_id = id}

\* C14: every stored trade belongs to exactly one existing session, and a
\* deleteSession step removes each deleted session together with all of its
\* trades and no trade of any other session.
C14_TradesBelongToSessions ==
  /\ [](\A t \in tradesTable : Cardinality(SessionsWithId(t.session_id)) = 1)
  /\ [][ lastOp'.op = "deleteSession" =>
           /\ \A ses \in tradingSessionsTable \ tradingSessionsTable' :
                TradesOfSession(tradesTable', ses.id) = {}
           /\ \A t \in tradesTable \ tradesTable' :
                \E ses \in tradingSessionsTable \ tradingSessionsTable' :
                  t.session_id = ses.id ]_vars

\* a session has just been deleted together with a trade of its own, and
\* another session is still there
C14_Witness ==
  /\ lastOp.op = "deleteSession"
  /\ lastOp.result.status = "fulfilled"
  /\ \E ses \in lastOp.removedSessions, t \in lastOp.removedTrades : t.session_id = ses.id
  /\ tradingSessionsTable # {}

\* ------------------------------------------------------------------------
\* tradingService and the store's errors
\* ------------------------------------------------------------------------
ServiceOperations ==
  {"getSessions", "createSession", "deleteSession", "getTrades", "addTrade",
   "updateTrade", "deleteTrade", "updateSessionCapital"}
ListOperations == {"getSessions", "getTrades"}

\* C15: an operation of tradingService makes one store call; when the store
\* reports an error it rejects with that very error; when the store reports
\* none it resolves, a list operation to the empty list when there is no
\* data.
C15_ErrorsVerbatim ==
  lastOp.op # "none" =>
    /\ lastOp.op \in ServiceOperations
    /\ lastOp.storeCalls = 1
    /\ lastOp.error # Absent =>
         /\ lastOp.result.status = "rejected"
         /\ lastOp.result.reason = lastOp.error[1]
    /\ lastOp.error = Absent =>
         /\ lastOp.result.status = "fulfilled"
         /\ lastOp.data # Absent => lastOp.result.value = lastOp.data[1]
         /\ lastOp.data = Absent /\ lastOp.op \in ListOperations =>
              lastOp.result.value = {}

\* addTrade for a session of another user: the store's policy error comes
\* back as the rejection
C15_Witness ==
  /\ lastOp.op = "addTrade"
  /\ lastOp.error = Some(RlsViolation)
  /\ lastOp.result = [status |-> "rejected", reason |-> RlsViolation]
  /\ tradingSessionsTable # {}

\* ------------------------------------------------------------------------
\* Row-level authorization
\* ------------------------------------------------------------------------
\* the owner of a trade: the user of its session, in either table state
OwnersOfTrade(t, sessionsT) == {ses.user_id : ses \in {x \in sessionsT : x.id = t.session_id}}
\* the users whose rows the last operation handed to its caller
ReadOwners ==
  IF lastOp.data = Absent THEN {}
  ELSE IF lastOp.op = "getSessions" THEN {ses.user_id : ses \in lastOp.data[1]}
  ELSE IF lastOp.op = "createSession" THEN {lastOp.data[1].user_id}
  ELSE IF lastOp.op = "getTrades"
  THEN UNION {OwnersOfTrade(t, tradingSessionsTable) : t \in lastOp.data[1]}
  ELSE IF lastOp.op \in {"addTrade", "updateTrade"}
  THEN OwnersOfTrade(lastOp.data[1], tradingSessionsTable)
  ELSE IF lastOp.op = "ai-chat"
  THEN {ses.user_id : ses \in lastOp.data[1].sessions} \cup
       UNION {OwnersOfTrade(t, tradingSessionsTable) : t \in lastOp.data[1].trades}
  ELSE IF lastOp.op = "getChatHistory"
  THEN IF lastOp.data[1].rows = <<>> THEN {} ELSE {lastOp.data[1].user_id}
  ELSE {}
\* the users whose rows this step adds, changes or removes
WriteOwners ==
  {ses.user_id : ses \in (tradingSessionsTable \ tradingSessionsTable') \cup
                         (tradingSessionsTable' \ tradingSessionsTable)} \cup
  UNION {OwnersOfTrade(t, tradingSessionsTable) : t \in tradesTable \ tradesTable'} \cup
  UNION {OwnersOfTrade(t, tradingSessionsTable') : t \in tradesTable' \ tradesTable} \cup
  {u \in Users : chatMessages'[u] # chatMessages[u]}

\* C16: through tradingService, the chat history and the ai-chat function, a
\* request acting for one user reads and writes only sessions, trades and
\* chat messages that this user owns.
C16_OwnRowsOnly ==
  /\ [](ReadOwners \subseteq {lastOp.uid})
  /\ [][WriteOwners \subseteq {lastOp'.uid}]_vars

\* ------------------------------------------------------------------------
\* The search trigger and the web search of the ai-chat function
\* ------------------------------------------------------------------------

\* the handler is serving a chat request and has passed its search decision
PastSearchDecision == request.pc # "idle" /\ request.message # ""

\* C17: the handler leaves out the web search only for a message that,
\* trimmed and without regard to case, is one of the skip patterns; for every
\* other message it calls performWebSearch before it builds the prompt
C17_SearchUnlessGreeting ==
  PastSearchDecision =>
    (request.searchCalls = 0 <=> shouldSkipSearch(request.message))

\* what the handler does: it searches exactly when the message is no skip
\* pattern and needsRealTimeSearch says yes
SearchAsCoded ==
  PastSearchDecision =>
    (request.searchCalls = 1 <=>
       ~shouldSkipSearch(request.message) /\ needsRealTimeSearch(request.message))

\* a message that is no skip pattern went on to the store without a search
SkippedWithoutGreeting ==
  /\ request.pc = "sessions" /\ request.searchCalls = 0
  /\ ~shouldSkipSearch(request.message)

\* the provider gave nothing to format: no organic result, no knowledge
\* graph, no answer box
EmptyResultSet(data) ==
  /\ "organic" \notin DOMAIN data \/ data.organic = <<>>
  /\ "knowledgeGraph" \notin DOMAIN data
  /\ "answerBox" \notin DOMAIN data

\* performWebSearch ran without a key, or its fetch threw, answered with a
\* status that is no success, or answered an empty result set
SearchFailed ==
  /\ request.searchCalls = 1 /\ request.pc # "search"
  /\ \/ request.searchQueries = <<>>
     \/ /\ request.searchReply # Absent
        /\ \/ request.searchReply[1].kind \in {"rejected", "status", "invalid"}
           \/ /\ request.searchReply[1].kind = "json"
              /\ EmptyResultSet(request.searchReply[1].data)

\* the handler answered a chat request with the text of the model
Answered ==
  /\ request.message # ""
  /\ request.response # Absent /\ request.response[1].status = 200

\* C18: performWebSearch never throws, and on a missing key, a thrown
\* fetch, a status that is no success or an empty result set it returns '';
\* the handler then goes on as without a search: when both store queries
\* succeed it calls the model with a prompt without the live-search block and
\* an answer carries searchPerformed = false; and the prompt has the
\* live-search block exactly when the returned text is not empty
C18_SearchIsBestEffort ==
  /\ [](/\ SearchFailed => request.searchContext = "" /\ ~request.hasSearchData
        /\ request.systemPrompt # Absent =>
              /\ request.modelCalls = 1
              /\ request.systemPrompt[1].liveSearch # Absent <=> request.searchContext # ""
        /\ Answered =>
              /\ request.systemPrompt # Absent
              /\ request.response[1].body.searchPerformed = (request.searchContext # ""))
  /\ [][/\ (request.pc = "search") =>
               (request'.pc = "sessions" /\ request'.response = Absent)
        /\ (request.pc = "trades" /\ request'.response = Absent) =>
               (request'.pc = "model" /\ request'.modelCalls = 1)]_vars

\* a search whose fetch threw was followed by an answer of the model
C18_Witness ==
  /\ SearchFailed /\ request.searchReply = Some([kind |-> "rejected"])
  /\ Answered /\ ~request.response[1].body.searchPerformed
  /\ request.systemPrompt[1].liveSearch = Absent

\* a search with results was followed by an answer of the model
SearchAnswered ==
  /\ request.searchContext # "" /\ Answered
  /\ request.response[1].body.searchPerformed

\* ------------------------------------------------------------------------
\* The round trip of a session through exportToJSON and importFromJSON
\* ------------------------------------------------------------------------

\* the exported file was imported again
ReImported ==
  /\ export.file # Absent /\ imported # Absent
  /\ imported[1] = importFromJSON(export.file[1])

\* C19: importing what exportToJSON made of a session and its trades gives
\* back every field of the session and of every trade: the same fields are
\* present, with the same values
C19_RoundTrip ==
  ReImported =>
    /\ imported[1].status = "fulfilled"
    /\ imported[1].value.session = export.session[1]
    /\ imported[1].value.trades = export.trades

\* what the round trip keeps: the four fields of the session and the six
\* fields of a trade that exportToJSON writes, each present with its value
\* when it was present and absent when it was absent
ExportedFieldsRoundTrip ==
  ReImported =>
    /\ imported[1].status = "fulfilled"
    /\ \A key \in {"name", "initial_capital", "current_capital", "created_at"} :
         Property(imported[1].value.session, key) = Property(export.session[1], key)
    /\ Len(imported[1].value.trades) = Len(export.trades)
    /\ \A i \in 1..Len(export.trades) :
         \A key \in {"margin", "roi", "entry_side", "profit_loss", "comments",
                     "created_at"} :
           Property(imported[1].value.trades[i], key) = Property(export.trades[i], key)

\* a session with a trade was exported and imported again, and the import
\* has neither the id of the session nor the symbol of the trade
FieldsLostOnRoundTrip ==
  /\ ReImported /\ Len(export.trades) > 0
  /\ "id" \notin DOMAIN imported[1].value.session
  /\ \E i \in 1..Len(export.trades) :
       /\ "symbol" \in DOMAIN export.trades[i]
       /\ "symbol" \notin DOMAIN imported[1].value.trades[i]

\* ------------------------------------------------------------------------
\* A failed trade mutation leaves the form and the list as they were
\* ------------------------------------------------------------------------

Last(q) == q[Len(q)]

\* the step in which handleSubmit runs on after onAddTrade settled
AddSettled == form.pc = "awaiting" /\ form'.pc = "idle"

\* the step in which saveEdit runs on after onUpdateTrade settled
UpdateSettled == Len(list'.saves) < Len(list.saves)

\* C20: when onAddTrade rejects, the form keeps its values and its upload,
\* and when onUpdateTrade rejects, the list keeps the row in edit mode with
\* its pending values; the one notice shown is the failure notice. The form
\* is reset and the upload cleared by handleSubmit, and edit mode is left by
\* saveEdit, only when the mutation was fulfilled, with the success notice
C20_FailureKeepsState ==
  [][/\ (AddSettled /\ form'.result = "rejected") =>
          /\ form'.formData = form.formData /\ form'.upload = form.upload
          /\ toasts' = Append(toasts, ToastError("Failed to add trade"))
          /\ list' = list
     /\ (AddSettled /\ form'.result # "rejected") =>
          /\ form'.result = "fulfilled"
          /\ form'.formData = InitialFormData(form.kind) /\ form'.upload = NoUpload
          /\ toasts' = Append(toasts, ToastSuccess(AddedText(form.kind)))
     /\ (UpdateSettled /\ list'.settled = Some("rejected")) =>
          /\ list'.editingTradeId = list.editingTradeId
          /\ list'.editFormData = list.editFormData
          /\ toasts' = Append(toasts, ToastError("Failed to update trade"))
          /\ form' = form
     /\ (UpdateSettled /\ list'.settled # Some("rejected")) =>
          /\ list'.settled = Some("fulfilled")
          /\ list'.editingTradeId = Null /\ list'.editFormData = Absent
          /\ toasts' = Append(toasts, ToastSuccess("Trade updated successfully"))]_vars

\* a failed add left a filled form with its upload and the failure notice
\* on the screen, while a row is in edit mode with a changed comment after a
\* failed update
C20_Witness ==
  /\ form.result = "rejected" /\ form.pc = "idle"
  /\ form.formData.margin = "250" /\ form.formData[PnlField(form.kind)] = "20"
  /\ form.upload.preview # Null
  /\ list.settled = Some("rejected") /\ list.editingTradeId = "t1"
  /\ list.editFormData = Some([comments |-> "b"])
  /\ toasts = <<ToastError("Failed to add trade")>>

\* ------------------------------------------------------------------------
\* Properties of the cleaning of an extracted record
\* ------------------------------------------------------------------------
Cleaned == extraction.pc = "cleaned"
CleanedField(key) == extraction.cleanData[key]
ExtractedField(key) == Property(extraction.data, key)

\* a reason that is not empty and holds none of the words normalizeReason
\* looks for
ReasonWords ==
  {"tp", "take profit", "takeprofit", "sl", "stop loss", "stoploss", "early",
   "manual", "close"}
UnrecognizedNonEmpty(value) ==
  /\ ~Falsy(value)
  /\ \A word \in ReasonWords : ~StringIncludes(ToLowerCase(ToStringOf(value)), word)

\* C21: whatever the reply holds as position and reason, the cleaned record
\* holds 'Open', 'Closed' or undefined as position and 'TP', 'SL',
\* 'Early Close', 'Other' or undefined as reason; a reason that is not empty
\* and not recognized becomes 'Other'; so both values pass the CHECK
\* constraints of the trades table.
C21_NormalizedValuesPassCheck ==
  Cleaned =>
    /\ CleanedField("position") \in {JsString("Open"), JsString("Closed"), JsUndefined}
    /\ CleanedField("reason") \in {JsString("TP"), JsString("SL"), JsString("Early Close"),
                                    JsString("Other"), JsUndefined}
    /\ UnrecognizedNonEmpty(ExtractedField("reason"))
         => CleanedField("reason") = JsString("Other")
    /\ PositionCheck(ColumnValue(CleanedField("position")))
    /\ ReasonCheck(ColumnValue(CleanedField("reason")))

C21_UnrecognizedReasonCleaned ==
  /\ Cleaned
  /\ ExtractedField("reason") = JsString("Liquidation")
  /\ CleanedField("reason") = JsString("Other")

C21_UnrecognizedPositionCleaned ==
  /\ Cleaned
  /\ ExtractedField("position") = JsString("pending")
  /\ CleanedField("position") = JsUndefined

\* the double nearest to mantissa / 10^places
Decimal(mantissa, places) ==
  JsDouble(IF mantissa < 0
           THEN NumNeg(NumDiv(NumOfInt(0 - mantissa), NumOfInt(10 ^ places)))
           ELSE NumDiv(NumOfInt(mantissa), NumOfInt(10 ^ places)))

\* texts that do not start with a number
NoLeadingNumber == Strings({" ", "abc", "N/A", "-", ".", "e5", "$"})

\* C22: in every numeric field of the cleaned record, "3,401.188" has become
\* 3401.188, "(12.50)" -12.5 and "$1,200" 1200, with the separators and the
\* currency signs of the other texts gone as well; null, undefined, the empty
\* string and a text that does not start with a number have become undefined,
\* and no field is NaN.
C22_ParsedNumbers ==
  Cleaned =>
    \A key \in NumberFields :
      /\ ExtractedField(key) = JsString("3,401.188") => CleanedField(key) = Decimal(3401188, 3)
      /\ ExtractedField(key) = JsString("(12.50)") => CleanedField(key) = Decimal(-125, 1)
      /\ ExtractedField(key) = JsString("$1,200") => CleanedField(key) = Decimal(1200, 0)
      /\ ExtractedField(key) = JsString("€ 1 000") => CleanedField(key) = Decimal(1000, 0)
      /\ ExtractedField(key) = JsString("£45.10") => CleanedField(key) = Decimal(451, 1)
      /\ ExtractedField(key) = JsString("¥300") => CleanedField(key) = Decimal(300, 0)
      /\ ExtractedField(key) \in {JsNull, JsUndefined, JsString("")} \cup NoLeadingNumber
           => CleanedField(key) = JsUndefined
      /\ CleanedField(key) # NaN

C22_CurrencyTextParsed ==
  /\ Cleaned
  /\ ExtractedField("closePrice") = JsString("$1,200")
  /\ CleanedField("closePrice") = Decimal(1200, 0)
  /\ ExtractedField("openPrice") = JsString("3,401.188")
  /\ CleanedField("pnlUsd") = Decimal(-125, 1)
  /\ CleanedField("sl") = JsUndefined

\* ------------------------------------------------------------------------
\* Properties of the streak walk
\* ------------------------------------------------------------------------
\* the counters of the walk after the first k trades
StreakAt(k) == StreakWalk(StreakInit, SubSeq(allTrades, 1, k))

\* the length of the run of consecutive trades satisfying P that ends with
\* trade k (0 when trade k does not satisfy P)
RunEndingAt(k, P(_)) ==
  IntSetMax({0} \cup {len \in 1..k : \A i \in (k - len + 1)..k : P(allTrades[i])})

\* C23, as stated: at each trade of the walk, a non-winning trade extends the
\* negative tracker or restarts it at -1 and leaves the counter of the winning
\* run as it was; a winning trade extends that counter or restarts it at 1
\* and sets the negative tracker to 0.
C23_AsStated ==
  Computed =>
    \A k \in 1..N :
      /\ NonWin(allTrades[k]) =>
           /\ StreakAt(k).tempWorstStreak =
                IF StreakAt(k - 1).tempWorstStreak < 0
                THEN StreakAt(k - 1).tempWorstStreak - 1 ELSE -1
           /\ StreakAt(k).currentStreak = StreakAt(k - 1).currentStreak
      /\ IsWin(allTrades[k]) =>
           /\ StreakAt(k).currentStreak =
                IF StreakAt(k - 1).currentStreak > 0
                THEN StreakAt(k - 1).currentStreak + 1 ELSE 1
           /\ StreakAt(k).tempWorstStreak = 0

\* C23, amended: the counter a winning trade extends or restarts at 1 is the
\* signed counter currentStreak, and a non-winning trade changes it too: it
\* extends it when it is negative and restarts it at -1 otherwise, so that
\* after each trade currentStreak is the length of the run that ends there,
\* negative for a run of non-winning trades.  A non-winning trade extends the
\* negative tracker or restarts it at -1 and leaves bestStreak as it was; a
\* winning trade sets the negative tracker to 0 and leaves worstStreak as it
\* was.
C23_StreakCounters ==
  Computed =>
    \A k \in 1..N :
      /\ NonWin(allTrades[k]) =>
           /\ StreakAt(k).currentStreak =
                IF StreakAt(k - 1).currentStreak < 0
                THEN StreakAt(k - 1).currentStreak - 1 ELSE -1
           /\ StreakAt(k).currentStreak = 0 - RunEndingAt(k, NonWin)
           /\ StreakAt(k).tempWorstStreak =
                IF StreakAt(k - 1).tempWorstStreak < 0
                THEN StreakAt(k - 1).tempWorstStreak - 1 ELSE -1
           /\ StreakAt(k).bestStreak = StreakAt(k - 1).bestStreak
      /\ IsWin(allTrades[k]) =>
           /\ StreakAt(k).currentStreak =
                IF StreakAt(k - 1).currentStreak > 0
                THEN StreakAt(k - 1).currentStreak + 1 ELSE 1
           /\ StreakAt(k).currentStreak = RunEndingAt(k, IsWin)
           /\ StreakAt(k).tempWorstStreak = 0
           /\ StreakAt(k).worstStreak = StreakAt(k - 1).worstStreak

\* a non-winning trade after two winning ones
C23_LossAfterWins ==
  /\ Computed
  /\ \E k \in 1..N :
       /\ NonWin(allTrades[k])
       /\ StreakAt(k - 1).currentStreak = 2
       /\ StreakAt(k).currentStreak = -1

\* ------------------------------------------------------------------------
\* Properties of the conversation context
\* ------------------------------------------------------------------------
\* the last n rows, oldest first (all of them when there are fewer)
LastRows(rows, n) == SubSeq(rows, Len(rows) - Min(Len(rows), n) + 1, Len(rows))

\* the step in which the history query of turn k has given its rows and the
\* turn goes on
Rehydrates(k) ==
  /\ turns[k].pc = "loading"
  /\ turns'[k].pc = "sessions"
  /\ ~turns'[k].storeFailed

\* C24: when the context of a user who has none is loaded in a text turn, it
\* is made of the last 20 rows of the user's chat history (all of them when
\* there are fewer), oldest first, and the new user message is appended to
\* that.
C24_RehydratedWithLastTwenty ==
  [][\A k \in Slots :
       Rehydrates(k) =>
         conversationContexts'[turns[k].userId] =
           Some(PushAndTrim(
                  ContextOfRows(LastRows(chatMessages[turns[k].userId], HistoryLimit)),
                  Entry("user", turns[k].message, now)))]_vars

\* what the query gives instead: the first 20 rows in the order of created_at
C24_RehydratedWithFirstTwenty ==
  [][\A k \in Slots :
       Rehydrates(k) =>
         conversationContexts'[turns[k].userId] =
           Some(PushAndTrim(
                  ContextOfRows(SubSeq(chatMessages[turns[k].userId], 1,
                                       Min(Len(chatMessages[turns[k].userId]),
                                           HistoryLimit))),
                  Entry("user", turns[k].message, now)))]_vars

\* turn k is the first turn of its user since the context was cleared, and
\* its prompt is built
FirstPromptSinceClear(k) ==
  /\ turns[k].prompt # Absent
  /\ cleared[turns[k].userId] = turns[k].message

\* C25: the first text turn of a user after clearConversationContext is built
\* with no conversation history from before the clear: the history of its
\* prompt is the new user message alone.
C25_NextTurnWithoutHistory ==
  \A k \in Slots :
    FirstPromptSinceClear(k) =>
      /\ Len(turns[k].prompt[1].history) = 1
      /\ turns[k].prompt[1].history[1].role = "user"
      /\ turns[k].prompt[1].history[1].content = turns[k].message

\* both turns in flight are over, each with a completion, for the same user,
\* whose context was never cleared
BothAnswered ==
  /\ \A k \in Slots : turns[k].pc = "done" /\ turns[k].completion # Absent
  /\ turns[1].userId = turns[2].userId
  /\ cleared[turns[1].userId] = "no"

\* C26: when two turns of the same user have overlapped and both are over,
\* the context of the user holds both user messages and both replies.
C26_NoMessageLost ==
  BothAnswered =>
    LET context == ContextOf(conversationContexts, turns[1].userId)
    IN  /\ \A k \in Slots :
             \E i \in 1..Len(context) :
               context[i].role = "user" /\ context[i].content = turns[k].message
        /\ Cardinality({i \in 1..Len(context) :
                          context[i].role = "assistant"
                            /\ context[i].content \in ReplyTexts}) >= 2

\* a call of handleSendMessage went past its first line in this step
SendAccepted == Len(chat'.sends) > Len(chat.sends)

\* processMessage of a turn settled in this step
TurnAnswered ==
  /\ Len(chat'.sends) <= Len(chat.sends)
  /\ \E i \in 1..Len(chat.sends) :
       /\ chat.sends[i].pc = "processing"
       /\ (Len(chat'.sends) < Len(chat.sends) \/ chat'.sends[i].pc = "saving")

\* a call of handleSendMessage ended in this step
TurnOver == Len(chat'.sends) < Len(chat.sends)

\* the messages of one role that a step added at the end of the list
AppendedOf(role) ==
  Cardinality({i \in (Len(chat.messages) + 1)..Len(chat'.messages) :
                 chat'.messages[i].role = role})

\* the list before the step is still the beginning of the list after it,
\* whatever the contents of its messages
KeepsList ==
  /\ Len(chat'.messages) >= Len(chat.messages)
  /\ \A i \in 1..Len(chat.messages) : chat'.messages[i].id = chat.messages[i].id

\* C27: at most one turn of the chat interface is in flight at a time: a
\* send is accepted only when isLoading is false, the trimmed input is not
\* empty and a user is signed in; a turn adds one user message and one
\* assistant message at the end of the list (the streaming version adds
\* both with the send and fills the second with the answer, the plain
\* version adds the second with the answer); and isLoading is true exactly
\* while a turn is in flight, so it is false after every turn, answered or
\* failed.
C27_OneTurnAtATime ==
  /\ [](Len(chat.sends) <= 1 /\ (chat.isLoading <=> chat.sends # <<>>))
  /\ [][ /\ SendAccepted =>
              /\ CanSend(chat)
              /\ KeepsList
              /\ AppendedOf("user") = 1
              /\ AppendedOf("ai") = (IF chat.kind = "streaming" THEN 1 ELSE 0)
              /\ Len(chat'.messages) = Len(chat.messages) + 1 + AppendedOf("ai")
         /\ TurnAnswered =>
              /\ KeepsList
              /\ AppendedOf("user") = 0
              /\ AppendedOf("ai") = (IF chat.kind = "streaming" THEN 0 ELSE 1)
              /\ Len(chat'.messages) = Len(chat.messages) + AppendedOf("ai")
         /\ TurnOver => ~chat'.isLoading ]_vars

\* a second turn failed after a first one was answered, and the interface
\* is ready again with the four messages of the two turns
C27_FailedTurnOver ==
  /\ chat.sent = 2 /\ chat.sends = <<>> /\ ~chat.isLoading
  /\ chat.connectionStatus = "limited"
  /\ Len(chat.messages) = 4
  /\ chat.messages[2].content = "reply A"
  /\ chat.messages[4].content = BusyText

\* processMessage was called for turn k in this step; turn k ended in this
\* step with the error that reached the catch block of processMessage
TurnCalled(k) == turns[k].pc = "idle" /\ turns'[k].pc # "idle"
TurnCaught(k) == turns[k].pc \notin {"idle", "done"} /\ turns'[k].threw # Absent
\* a call of a screenshot operation ended in this step
CallEnded(c) == calls[c].pc \in {"preparing", "attempting"} /\ calls'[c].pc = "done"

SharedCooldownStep ==
  /\ \A k \in Slots :
       /\ (TurnCaught(k) /\ IsQuotaMessage(turns'[k].threw[1])) =>
            quotaExceeded' /\ quotaResetTime' = Some(now)
       /\ (TurnCaught(k) /\ ~IsQuotaMessage(turns'[k].threw[1])) =>
            UNCHANGED <<quotaExceeded, quotaResetTime>>
       /\ (TurnCalled(k) /\ CoolingDown) =>
            /\ turns'[k].refused /\ turns'[k].pc = "done"
            /\ turns'[k].requests = 0
            /\ turns'[k].result = Fulfilled(DailyLimitReply)
            /\ UNCHANGED <<quotaExceeded, quotaResetTime>>
       /\ turns'[k].refused => turns'[k].requests = 0
  /\ \A c \in Callers :
       /\ (Invoked(c) /\ CoolingDown) =>
            /\ calls'[c].refused /\ calls'[c].pc = "done"
            /\ calls'[c].requests = 0 /\ calls'[c].outcome = "limit"
            /\ UNCHANGED <<quotaExceeded, quotaResetTime>>
       /\ (CallEnded(c) /\ calls'[c].outcome # "limit") =>
            UNCHANGED <<quotaExceeded, quotaResetTime>>
  /\ (quotaExceeded' /\ quotaResetTime' # quotaResetTime) =>
       \/ \E k \in Slots : TurnCaught(k) /\ IsQuotaMessage(turns'[k].threw[1])
       \/ \E c \in Callers : CallEnded(c) /\ calls'[c].outcome = "limit"

\* C28: the service instance has one cooldown flag for every user and for
\* its three operations: a chat turn that ends with a quota error sets the
\* flag and its time; while the flag is set and less than 24 hours have
\* passed, a chat turn called for any user and a call of a screenshot
\* operation are refused with no request to the model; the flag is set in
\* no step but one in which a turn or a call ends with a quota error, and a
\* turn or a call that ends with another failure leaves it as it was.
C28_SharedCooldown == [][SharedCooldownStep]_vars

\* the turn of u1 ended with a quota error at hour 0; twelve hours later a
\* turn of u2 and a screenshot analysis are both refused
C28_RefusedForOtherUser ==
  /\ quotaExceeded /\ quotaResetTime = Some(0) /\ now = 12
  /\ \E i \in 1..Len(chatMessages["u1"]) :
       chatMessages["u1"][i].message = ChatLimitReply
  /\ turns[1].userId = "u2" /\ turns[1].refused /\ turns[1].requests = 0
  /\ calls["a"].op = "analyzeScreenshot" /\ calls["a"].refused
  /\ calls["a"].requests = 0

\* the trades in another order, and what calculateUserAnalytics gives then
Permuted(q, p) == [i \in 1..Len(q) |-> q[p[i]]]
Reordered(p) == calculateUserAnalytics(sessions, Permuted(allTrades, p))
Orders == Permutations(1..Len(allTrades))

\* the whole numbers among the amounts
WholeNums == {NumOfInt(n) : n \in -20..20}
WholeAmounts == \A i \in 1..Len(allTrades) : allTrades[i].profit_loss \in WholeNums
WholeMargins == \A i \in 1..Len(allTrades) : allTrades[i].margin \in WholeNums

\* the metrics the claim names are the same in every order
SameNamedMetrics(p) ==
  /\ Reordered(p).successRate = analytics[1].successRate
  /\ Reordered(p).overallPerformance = analytics[1].overallPerformance
  /\ Reordered(p).profitFactor = analytics[1].profitFactor
  /\ Reordered(p).tradeDistribution = analytics[1].tradeDistribution
  /\ Reordered(p).riskMetrics = analytics[1].riskMetrics
  /\ Reordered(p).activeCapital = analytics[1].activeCapital

SameCountedMetrics(p) ==
  /\ Reordered(p).successRate = analytics[1].successRate
  /\ Reordered(p).tradeDistribution = analytics[1].tradeDistribution
  /\ Reordered(p).riskMetrics.maxRisk = analytics[1].riskMetrics.maxRisk
  /\ Reordered(p).activeCapital = analytics[1].activeCapital

Shown == analytics[1]
Winners == Len(SelectSeq(allTrades, IsWin))
PercentageSum ==
  NumAdd(Shown.tradeDistribution.longPercentage, Shown.tradeDistribution.shortPercentage)
AtLeastZero(x) == ~NumLT(x, NumZero)

\* the ranges of the result but for the sum of the two percentages
CountsInRange ==
  /\ AtLeastZero(Shown.successRate) /\ ~NumGT(Shown.successRate, Hundred)
  /\ AtLeastZero(Shown.profitFactor)
  /\ AtLeastZero(Shown.maxDrawdown.amount)
  /\ AtLeastZero(Shown.maxDrawdown.percentage)
  /\ Shown.streaks.bestStreak <= Winners
  /\ Shown.streaks.worstStreak <= Len(allTrades) - Winners
  /\ Shown.tradeDistribution.longTrades + Shown.tradeDistribution.shortTrades
       <= Len(allTrades)

\* C30 as stated: the result is in range, and the two percentages add up to
\* 100 whenever every entry_side is 'Long' or 'Short' (as every stored
\* entry_side is).
C30_AsStated ==
  analytics # Absent => (CountsInRange /\ PercentageSum = Hundred)

\* C30, amended: 0 <= successRate <= 100, profitFactor >= 0, both fields
\* of maxDrawdown >= 0, bestStreak <= the winning trades, worstStreak <= the
\* other trades, longTrades + shortTrades = the trade count; the two
\* percentages add up to 0 for no trades and else to 100 within a
\* thousandth (the rounding of the two quotients).
C30_ResultInRange ==
  analytics # Absent =>
    /\ CountsInRange
    /\ Shown.tradeDistribution.longTrades + Shown.tradeDistribution.shortTrades
         = Len(allTrades)
    /\ IF Len(allTrades) = 0 THEN PercentageSum = NumZero
       ELSE NumLT(NumAbs(NumSub(PercentageSum, Hundred)), Dec(1, 1000))

\* one long and two short trades: 33.33333333333333 + 66.66666666666666 is
\* not 100
C30_ThirdsDoNotAddUp ==
  /\ analytics # Absent
  /\ Len(allTrades) = 3
  /\ Shown.tradeDistribution.longTrades = 1
  /\ Shown.tradeDistribution.shortTrades = 2
  /\ Shown.streaks.worstStreak = 2
  /\ CountsInRange
  /\ PercentageSum # Hundred
====
